---------------------------- MODULE Spec2Model ----------------------------
(***************************************************************************)
(* A model of the Analyst financial-document parser (class AnalystParser,  *)
(* src/unnamed/part_002).  AnalystParser.parse runs a fixed sequence of     *)
(* stages over one document (raw text plus optional OCR words); each stage *)
(* is one action of the model, translated from the stage's code.           *)
(*                                                                         *)
(* Encodings used throughout:                                              *)
(*  - A monetary amount is a JavaScript number holding a whole number of   *)
(*    dollars.  Amounts reach 10^12 and more, beyond the integers TLC      *)
(*    computes with, so an amount is kept exactly as two limbs             *)
(*    [hi, lo] standing for hi * 10^6 + lo dollars, 0 <= lo < 10^6.        *)
(*  - An optional value (T | undefined, T | null) is the empty sequence    *)
(*    or a one-element sequence.                                           *)
(*  - A text is kept as its tokens: a raw-text line is the sequence of     *)
(*    label phrases and numerals on it, an OCR word or table cell is one   *)
(*    token.  A regular expression is modelled by the predicate it decides *)
(*    on such tokens.                                                      *)
(*  - A log line is kept without its timestamp.                            *)
(***************************************************************************)
EXTENDS Integers, Sequences, FiniteSets, TLC

(***************************************************************************)
(* Amounts of money: exact two-limb integers.                              *)
(***************************************************************************)
MoneyBase == 1000 * 1000

Dollars(h, l) == [hi |-> h, lo |-> l]

MNorm(h, l) == [hi |-> h + (l \div MoneyBase), lo |-> l % MoneyBase]

MZero == Dollars(0, 0)

MAdd(a, b) == MNorm(a.hi + b.hi, a.lo + b.lo)

MNeg(a) == MNorm(-a.hi, -a.lo)

MSub(a, b) == MAdd(a, MNeg(b))

MLt(a, b) == a.hi < b.hi \/ (a.hi = b.hi /\ a.lo < b.lo)

MLe(a, b) == a = b \/ MLt(a, b)

MAbs(a) == IF MLt(a, MZero) THEN MNeg(a) ELSE a

\* the integer part (floor) of a / k, for a natural k > 0
MDivFloor(a, k) ==
  Dollars(a.hi \div k, ((a.hi % k) * MoneyBase + a.lo) \div k)

\* x > a / k over the rationals, x and a whole amounts; the code compares
\* with a * 0.5, a * 0.2, ..., computed in floating point
MGtDiv(x, a, k) == MLt(MDivFloor(a, k), x)

(***************************************************************************)
(* Optional values.                                                        *)
(***************************************************************************)
None == <<>>

Some(x) == <<x>>

Has(o) == o # <<>>

Get(o) == o[1]


(***************************************************************************)
(* Tokens.  A label token is a label phrase (its text holds no digit and   *)
(* no comma); a numeral token is written                                   *)
(*     [$] [(] digits [. digits] [suffix] [)]                              *)
(* with int its whole part, frac its fraction in thousandths and suffix    *)
(* "" or a letter B, M, K of either case.  The numerals of the documents   *)
(* carry at most one of "$" and "(" in front and at most one of an upper   *)
(* case suffix and ")" behind, the shapes every numeral pattern of the     *)
(* parser accepts.                                                         *)
(***************************************************************************)
Label(t) ==
  [kind |-> "label", text |-> t, dollar |-> FALSE, open |-> FALSE,
   close |-> FALSE, int |-> 0, frac |-> 0, suffix |-> ""]

Num(i) ==
  [kind |-> "num", text |-> "", dollar |-> FALSE, open |-> FALSE,
   close |-> FALSE, int |-> i, frac |-> 0, suffix |-> ""]

Paren(n) == [n EXCEPT !.open = TRUE, !.close = TRUE]

Dollar(n) == [n EXCEPT !.dollar = TRUE]

(***************************************************************************)
(* parseNumber.  text is a numeral token, scaleMultiplier the value of     *)
(* this.documentScale.multiplier.  The result is null (None) or a number.  *)
(***************************************************************************)
\* num * multiplier, for num = int + frac/1000 and multiplier 10^3, 10^6, 10^9
NumTimes(int, frac, multiplier) ==
  LET milli == int * 1000 + frac
  IN  CASE multiplier = 1000 -> MNorm(0, milli)
        [] multiplier = 1000000 ->
             MNorm(milli \div 1000, (milli % 1000) * 1000)
        [] multiplier = 1000000000 -> MNorm(milli, 0)

\* /B$/i, /M$/i, /K$/i
SuffixMultiplier(suffix) ==
  CASE suffix \in {"B", "b"} -> 1000000000
    [] suffix \in {"M", "m"} -> 1000000
    [] suffix \in {"K", "k"} -> 1000

\* a parseNumber that applies the document scale to every numeral, suffixed
\* or not
parseNumberScaled(text, scaleMultiplier) ==
  IF text.kind # "num" \/ (text.int = 0 /\ text.frac = 0)
    THEN None
    ELSE Some(IF text.open /\ text.close
                THEN MNeg(NumTimes(text.int, text.frac, scaleMultiplier))
                ELSE NumTimes(text.int, text.frac, scaleMultiplier))

\* a parseNumber that takes one parenthesis for a negative
parseNumberOneParen(text, scaleMultiplier) ==
  LET multiplier == IF text.suffix # ""
                      THEN SuffixMultiplier(text.suffix)
                      ELSE scaleMultiplier
  IN  IF text.kind # "num" \/ (text.int = 0 /\ text.frac = 0)
        THEN None
        ELSE Some(IF text.open \/ text.close
                    THEN MNeg(NumTimes(text.int, text.frac, multiplier))
                    ELSE NumTimes(text.int, text.frac, multiplier))

parseNumber(text, scaleMultiplier) ==
  LET hasParens == text.open /\ text.close
      hasExplicitSuffix == text.suffix \in {"B", "M", "K", "b", "m", "k"}
      multiplier == IF hasExplicitSuffix
                      THEN SuffixMultiplier(text.suffix)
                      ELSE scaleMultiplier
      isNaN == text.kind # "num"
      isZero == text.int = 0 /\ text.frac = 0
  IN  IF isNaN \/ isZero
        THEN None
        ELSE LET result == NumTimes(text.int, text.frac, multiplier)
             IN  Some(IF hasParens THEN MNeg(result) ELSE result)

(***************************************************************************)
(* detectDocumentScale.  decls is the set of scale declarations that occur *)
(* in the raw text; the patterns are tried in the order of the code and    *)
(* the first that matches anywhere in the text wins.                       *)
(***************************************************************************)
DefaultScale == [unit |-> "millions", multiplier |-> 1000000]

ScalePatterns ==
  << [phrase |-> "(in millions)", multiplier |-> 1000000, unit |-> "millions"],
     [phrase |-> "(in thousands)", multiplier |-> 1000, unit |-> "thousands"],
     [phrase |-> "(in billions)", multiplier |-> 1000000000, unit |-> "billions"],
     [phrase |-> "amounts in millions", multiplier |-> 1000000, unit |-> "millions"] >>

MatchingScales(decls) ==
  SelectSeq(ScalePatterns, LAMBDA p : p.phrase \in decls)

\* the scale after detectDocumentScale, given the scale before it
DetectedScale(decls, before) ==
  IF MatchingScales(decls) # <<>>
    THEN [unit |-> MatchingScales(decls)[1].unit,
          multiplier |-> MatchingScales(decls)[1].multiplier]
    ELSE before

\* A log line: the message, and the field name, count and amount printed in it.
LogLine(msg, field, n, amount) ==
  [msg |-> msg, field |-> field, n |-> n, amount |-> amount]

Msg(msg) == LogLine(msg, "", 0, MZero)

ScaleLog(decls) ==
  IF MatchingScales(decls) # <<>>
    THEN LogLine("Detected document scale", MatchingScales(decls)[1].unit,
                 MatchingScales(decls)[1].multiplier, MZero)
    ELSE Msg("No explicit scale found, assuming base units")

(***************************************************************************)
(* Sequences.                                                              *)
(***************************************************************************)
\* an array: the sequence f, each of its elements computed once
Array(f) == f \o <<>>

RECURSIVE Concat(_)
Concat(ss) == IF ss = <<>> THEN <<>> ELSE Head(ss) \o Concat(Tail(ss))

\* Array.prototype.flat, and the pushes of a loop over arrays
Flatten(ss) == Concat(Array(ss))

SetMin(S) == CHOOSE m \in S : \A n \in S : m <= n

SetMax(S) == CHOOSE m \in S : \A n \in S : m >= n

\* Array.prototype.sort with the comparator (a, b) => a - b on numbers:
\* ascending, equal numbers in their original order (the sort is stable)
SortAscending(xs) ==
  LET before(j, i) == xs[j] < xs[i] \/ (xs[j] = xs[i] /\ j < i)
      rank(i) == Cardinality({j \in 1 .. Len(xs) : before(j, i)}) + 1
  IN  Array([k \in 1 .. Len(xs) |->
               xs[CHOOSE i \in 1 .. Len(xs) : rank(i) = k]])

\* Array.prototype.sort with the comparator (a, b) => a.col - b.col on cells
SortByCol(cells) ==
  LET before(j, i) ==
        \/ cells[j].col < cells[i].col
        \/ (cells[j].col = cells[i].col /\ j < i)
      rank(i) == Cardinality({j \in 1 .. Len(cells) : before(j, i)}) + 1
  IN  Array([k \in 1 .. Len(cells) |->
               cells[CHOOSE i \in 1 .. Len(cells) : rank(i) = k]])

\* the least index in hits, or 0 when there is none (findIndex's -1)
FirstIndex(hits) == IF hits = {} THEN 0 ELSE SetMin(hits)

(***************************************************************************)
(* detectTables, findTableRegions, parseTableFromWords.                    *)
(* An OCR word is [text, bbox, line, page], text a token.                  *)
(***************************************************************************)
Tolerance == 20

AssignTolerance == 30

MinTableRows == 3

MinNumbersPerRow == 2

\* /^[\$\(]?[\d,]+[\.\d]*[BMK\)]?$/ on a token: at most one of "$" and "("
\* in front, at most one of a suffix and ")" behind
NumberShape(t) ==
  /\ t.kind = "num"
  /\ ~(t.dollar /\ t.open)
  /\ t.suffix \in {"", "B", "M", "K"}
  /\ ~(t.suffix # "" /\ t.close)

IsNumberWord(w) == NumberShape(w.text)

RECURSIVE detectColumnPositionsFrom(_, _)
detectColumnPositionsFrom(xPositions, columns) ==
  IF xPositions = <<>>
    THEN columns
    ELSE LET x == Head(xPositions)
         IN  detectColumnPositionsFrom(
               Tail(xPositions),
               IF columns = <<>> \/ x - columns[Len(columns)] > Tolerance
                 THEN Append(columns, x)
                 ELSE columns)

detectColumnPositions(xPositions) ==
  detectColumnPositionsFrom(xPositions, <<>>)

\* columns are numbered from 0, as in the code
assignColumn(x, columns) ==
  LET k == FirstIndex({j \in 1 .. Len(columns) :
                         /\ x - columns[j] < AssignTolerance
                         /\ columns[j] - x < AssignTolerance})
  IN  IF k # 0 THEN k - 1 ELSE Len(columns)

calculateBoundingBox(boxes) ==
  IF boxes = <<>>
    THEN [x |-> 0, y |-> 0, width |-> 0, height |-> 0]
    ELSE LET ks == 1 .. Len(boxes)
             minX == SetMin({boxes[k].x : k \in ks})
             minY == SetMin({boxes[k].y : k \in ks})
             maxX == SetMax({boxes[k].x + boxes[k].width : k \in ks})
             maxY == SetMax({boxes[k].y + boxes[k].height : k \in ks})
         IN  [x |-> minX, y |-> minY,
              width |-> maxX - minX, height |-> maxY - minY]

\* the label phrases of the model in which /balance.*sheet/i,
\* /income|operations/i and /cash.*flow/i find a match
\* title is the first row's words, joined by single spaces
TableType(title) ==
  LET texts == {title[k].text : k \in 1 .. Len(title)}
  IN  IF "CONSOLIDATED BALANCE SHEETS" \in texts THEN "balance_sheet"
      ELSE IF texts \cap {"Net income", "Operating income",
                          "Income from operations",
                          "CONSOLIDATED STATEMENTS OF INCOME"} # {}
        THEN "income_statement"
      ELSE IF "CONSOLIDATED STATEMENTS OF CASH FLOWS" \in texts
        THEN "cash_flow"
      ELSE "unknown"

\* the texts of a sequence of words or cells
Texts(ws) == Array([k \in 1 .. Len(ws) |-> ws[k].text])

\* the rows of a table: each word becomes a cell in the column assigned to it
tableRows(tableWords, columns) ==
  Array([i \in 1 .. Len(tableWords) |->
           Array([j \in 1 .. Len(tableWords[i]) |->
                    [text |-> tableWords[i][j].text,
                     bbox |-> tableWords[i][j].bbox,
                     row |-> i - 1,
                     col |-> assignColumn(tableWords[i][j].bbox.x, columns),
                     isHeader |-> i = 1]])])

\* the table built from its rows; allWords is tableWords.flat() and
\* headers are the texts of the first row
tableFromRows(tableWords, allWords, rows, pageNum) ==
  [title |-> Texts(tableWords[1]),
   headers |-> Texts(rows[1]),
   rows |-> rows,
   bbox |-> calculateBoundingBox(
              Array([k \in 1 .. Len(allWords) |-> allWords[k].bbox])),
   page |-> pageNum,
   type |-> TableType(Texts(tableWords[1]))]

\* the table whose columns are detected from the sorted x positions
tableFromWords(tableWords, allWords, pageNum) ==
  tableFromRows(
    tableWords, allWords,
    tableRows(tableWords,
              detectColumnPositions(
                SortAscending(
                  Array([k \in 1 .. Len(allWords) |-> allWords[k].bbox.x])))),
    pageNum)

parseTableFromWords(tableWords, startLine, pageNum) ==
  tableFromWords(tableWords, Flatten(tableWords), pageNum)

\* The loop of findTableRegions from index i on: lines maps a line number to
\* the words of that line; currentTable is None (null) or Some(rows).
RECURSIVE findTableRegionsFrom(_, _, _, _, _, _, _)
findTableRegionsFrom(lines, lineNumbers, i, currentTable, tableStart, pageNum, tables) ==
  IF i > Len(lineNumbers)
    THEN tables
    ELSE
      LET lineNum == lineNumbers[i]
          words == lines[lineNum]
          numbers == SelectSeq(words, IsNumberWord)
      IN  IF Len(numbers) >= MinNumbersPerRow
            THEN findTableRegionsFrom(
                   lines, lineNumbers, i + 1,
                   Some(Append(IF Has(currentTable) THEN Get(currentTable)
                                                    ELSE <<>>, words)),
                   IF Has(currentTable) THEN tableStart ELSE lineNum,
                   pageNum, tables)
          ELSE IF Has(currentTable) /\ Len(Get(currentTable)) >= MinTableRows
            THEN findTableRegionsFrom(
                   lines, lineNumbers, i + 1, None, tableStart, pageNum,
                   Append(tables,
                          parseTableFromWords(Get(currentTable), tableStart,
                                              pageNum)))
          ELSE findTableRegionsFrom(lines, lineNumbers, i + 1, None,
                                    tableStart, pageNum, tables)

\* Array.from(keys).sort((a, b) => a - b)
SetToSortedSeq(S) ==
  Array([k \in 1 .. Cardinality(S) |->
           CHOOSE x \in S : Cardinality({y \in S : y < x}) = k - 1])

findTableRegions(lines, pageNum) ==
  findTableRegionsFrom(lines, SetToSortedSeq(DOMAIN lines), 1, None, 0,
                       pageNum, <<>>)

\* the pages of words in the order of their first word (Map insertion order)
RECURSIVE PagesInOrder(_, _)
PagesInOrder(words, seen) ==
  IF words = <<>> THEN seen
  ELSE PagesInOrder(Tail(words),
                    IF \E k \in 1 .. Len(seen) : seen[k] = Head(words).page
                      THEN seen ELSE Append(seen, Head(words).page))

\* the lines of one page: line number -> the words of the line, in input order
PageLines(words, page) ==
  LET onPage == SelectSeq(words, LAMBDA w : w.page = page)
      nums == {onPage[k].line : k \in 1 .. Len(onPage)}
  IN  [n \in nums |-> SelectSeq(onPage, LAMBDA w : w.line = n)]

\* this.tables after detectTables, given this.tables before it
detectTables(words, tablesBefore) ==
  LET pages == PagesInOrder(words, <<>>)
  IN  tablesBefore \o
      Flatten([k \in 1 .. Len(pages) |->
                 findTableRegions(PageLines(words, pages[k]), pages[k])])

(***************************************************************************)
(* Label patterns.  A pattern of a field is kept as its kind, which says   *)
(* how the regular expression is anchored, and the label phrases of the    *)
(* model in which its phrase part finds a match:                           *)
(*   "whole"       /^P\s*$/im    the line is the phrase alone              *)
(*   "startDollar" /^P\s+\$/im   the line starts with the phrase, and a    *)
(*                               "$" follows it                            *)
(*   "start"       /^P\b/i       the line starts with the phrase           *)
(*   "contains"    /P/i          the phrase occurs on the line             *)
(*   "newline"     /P\s*\n/      needs a line break after the phrase: no   *)
(*                               single line and no cell has one           *)
(* A line is tested as the sequence of its tokens, a cell as the one       *)
(* token it holds.  Lines start with their first token.                    *)
(***************************************************************************)
Pat(kind, phrases) == [kind |-> kind, phrases |-> phrases]

IsLabelIn(t, phrases) == t.kind = "label" /\ t.text \in phrases

\* pattern.test(line), line given by its tokens
PatternTest(p, toks) ==
  CASE p.kind = "whole" -> Len(toks) = 1 /\ IsLabelIn(toks[1], p.phrases)
    [] p.kind = "startDollar" ->
         /\ Len(toks) >= 2
         /\ IsLabelIn(toks[1], p.phrases)
         /\ toks[2].kind = "num"
         /\ toks[2].dollar
    [] p.kind = "start" -> Len(toks) >= 1 /\ IsLabelIn(toks[1], p.phrases)
    [] p.kind = "contains" ->
         \E k \in 1 .. Len(toks) : IsLabelIn(toks[k], p.phrases)
    [] p.kind = "newline" -> FALSE

DefaultMinValue == Dollars(0, 100)

DefaultMaxValue == Dollars(1000000, 0)

\* the calls of extractField in extractFinancials, in the order of the code
FieldSpecs ==
  << [cat |-> "assets", slot |-> "total", fieldName |-> "total_assets",
      patterns |-> << Pat("whole", {"Total assets"}),
                      Pat("newline", {"Total assets"}),
                      Pat("startDollar", {"Total assets"}) >>,
      minValue |-> Dollars(5000, 0), maxValue |-> DefaultMaxValue],
     [cat |-> "assets", slot |-> "cash", fieldName |-> "cash",
      patterns |-> << Pat("contains", {"Cash and cash equivalents"}),
                      Pat("start", {"Cash", "Cash and cash equivalents"}) >>,
      minValue |-> DefaultMinValue, maxValue |-> DefaultMaxValue],
     [cat |-> "assets", slot |-> "marketable_securities",
      fieldName |-> "marketable_securities",
      patterns |-> << Pat("contains", {"Marketable securities"}),
                      Pat("contains", {"Short-term investments"}) >>,
      minValue |-> DefaultMinValue, maxValue |-> DefaultMaxValue],
     [cat |-> "assets", slot |-> "accounts_receivable",
      fieldName |-> "accounts_receivable",
      patterns |-> << Pat("contains", {"Accounts receivable"}),
                      Pat("contains", {"Trade receivables"}) >>,
      minValue |-> DefaultMinValue, maxValue |-> DefaultMaxValue],
     [cat |-> "assets", slot |-> "property_equipment",
      fieldName |-> "property_equipment",
      patterns |-> << Pat("contains", {"Property and equipment, net"}),
                      Pat("contains", {"Property, plant and equipment"}) >>,
      minValue |-> DefaultMinValue, maxValue |-> DefaultMaxValue],
     [cat |-> "assets", slot |-> "goodwill", fieldName |-> "goodwill",
      patterns |-> << Pat("contains", {"Goodwill"}) >>,
      minValue |-> DefaultMinValue, maxValue |-> DefaultMaxValue],
     [cat |-> "liabilities", slot |-> "total",
      fieldName |-> "total_liabilities",
      patterns |-> << Pat("whole", {"Total liabilities"}),
                      Pat("newline", {"Total liabilities"}),
                      Pat("contains", {"Total liabilities",
                                       "Total liabilities and equity"}) >>,
      minValue |-> Dollars(1000, 0), maxValue |-> DefaultMaxValue],
     [cat |-> "liabilities", slot |-> "long_term_debt",
      fieldName |-> "long_term_debt",
      patterns |-> << Pat("contains", {"Long-term debt"}),
                      Pat("contains", {"Long term debt"}) >>,
      minValue |-> DefaultMinValue, maxValue |-> DefaultMaxValue],
     [cat |-> "liabilities", slot |-> "accounts_payable",
      fieldName |-> "accounts_payable",
      patterns |-> << Pat("contains", {"Accounts payable"}) >>,
      minValue |-> DefaultMinValue, maxValue |-> DefaultMaxValue],
     [cat |-> "equity", slot |-> "total", fieldName |-> "total_equity",
      patterns |-> << Pat("whole", {"Total stockholders' equity",
                                    "Total shareholders' equity"}),
                      Pat("newline", {"Total stockholders' equity",
                                      "Total shareholders' equity"}),
                      Pat("whole", {"Total equity"}) >>,
      minValue |-> Dollars(1000, 0), maxValue |-> DefaultMaxValue],
     [cat |-> "equity", slot |-> "retained_earnings",
      fieldName |-> "retained_earnings",
      patterns |-> << Pat("contains", {"Retained earnings"}),
                      Pat("contains", {"Accumulated deficit",
                                       "Accumulated earnings"}) >>,
      minValue |-> DefaultMinValue, maxValue |-> DefaultMaxValue],
     [cat |-> "revenues", slot |-> "total", fieldName |-> "total_revenue",
      patterns |-> << Pat("whole", {"Total revenues", "Total revenue"}),
                      Pat("whole", {"Revenues", "Revenue"}),
                      Pat("newline", {"Total revenues", "Total revenue"}),
                      Pat("startDollar", {"Total revenues", "Total revenue"}),
                      Pat("newline", {"Revenues", "Revenue"}) >>,
      minValue |-> Dollars(1000, 0), maxValue |-> DefaultMaxValue],
     [cat |-> "revenues", slot |-> "cost_of_revenue",
      fieldName |-> "cost_of_revenue",
      patterns |-> << Pat("contains", {"Cost of revenues", "Cost of revenue"}),
                      Pat("contains", {"Cost of sales"}) >>,
      minValue |-> DefaultMinValue, maxValue |-> DefaultMaxValue],
     [cat |-> "revenues", slot |-> "gross_profit",
      fieldName |-> "gross_profit",
      patterns |-> << Pat("contains", {"Gross profit"}),
                      Pat("contains", {"Gross income"}) >>,
      minValue |-> DefaultMinValue, maxValue |-> DefaultMaxValue],
     [cat |-> "expenses", slot |-> "research_development", fieldName |-> "rd",
      patterns |-> << Pat("contains", {"Research and development"}),
                      Pat("contains", {"R&D"}) >>,
      minValue |-> DefaultMinValue, maxValue |-> DefaultMaxValue],
     [cat |-> "expenses", slot |-> "sales_marketing",
      fieldName |-> "sales_marketing",
      patterns |-> << Pat("contains", {"Sales and marketing"}),
                      Pat("contains", {"Selling and marketing"}),
                      Pat("contains",
                          {"Selling, general and administrative"}) >>,
      minValue |-> DefaultMinValue, maxValue |-> DefaultMaxValue],
     [cat |-> "expenses", slot |-> "general_administrative",
      fieldName |-> "ga",
      patterns |-> << Pat("contains",
                          {"General and administrative",
                           "Selling, general and administrative"}) >>,
      minValue |-> DefaultMinValue, maxValue |-> DefaultMaxValue],
     [cat |-> "income", slot |-> "operating_income",
      fieldName |-> "operating_income",
      patterns |-> << Pat("contains", {"Income from operations"}),
                      Pat("contains", {"Operating income"}) >>,
      minValue |-> DefaultMinValue, maxValue |-> DefaultMaxValue],
     [cat |-> "income", slot |-> "net_income", fieldName |-> "net_income",
      patterns |-> << Pat("contains", {"Net income (loss)"}),
                      Pat("contains", {"Net income", "Net income (loss)"}) >>,
      minValue |-> DefaultMinValue, maxValue |-> DefaultMaxValue],
     [cat |-> "income", slot |-> "earnings_per_share", fieldName |-> "eps",
      patterns |-> << Pat("contains", {"Basic earnings per share",
                                       "Basic net income per share"}) >>,
      minValue |-> MZero, maxValue |-> Dollars(0, 10000)],
     [cat |-> "cash_flow", slot |-> "operating", fieldName |-> "ocf",
      patterns |-> << Pat("contains",
                          {"Net cash provided by operating activities"}),
                      Pat("contains", {"Cash from operating activities"}),
                      Pat("contains",
                          {"Operating activities",
                           "Net cash provided by operating activities",
                           "Cash from operating activities"}) >>,
      minValue |-> DefaultMinValue, maxValue |-> DefaultMaxValue],
     [cat |-> "cash_flow", slot |-> "capex", fieldName |-> "capex",
      patterns |-> << Pat("contains", {"Capital expenditures"}),
                      Pat("contains", {"Purchases of property and equipment"}),
                      Pat("contains",
                          {"Property and equipment additions"}) >>,
      minValue |-> DefaultMinValue, maxValue |-> DefaultMaxValue] >>

(***************************************************************************)
(* extractFromTables.  A candidate (ExtractionResult) is                   *)
(* [value, source, confidence, page, bbox, context]; source is kept as the *)
(* parts its string is built from, context as the tokens of the text.      *)
(***************************************************************************)
Source(text, title, page, row) ==
  [text |-> text, title |-> title, page |-> page, row |-> row]

TextSource(text) == Source(text, <<>>, 0, 0)

\* /^[\$\(]?[\d,]+(?:\.[\d]+)?\s*[BMK\)]?$/ or
\* /^\(?[\d,]+(?:\.[\d]+)?\)?\s*[BMK]?$/ on a cell's trimmed text
IsNumericCell(cell) ==
  LET t == cell.text
  IN  \/ NumberShape(t)
      \/ /\ t.kind = "num"
         /\ ~t.dollar
         /\ t.suffix \in {"", "B", "M", "K"}
         /\ ~(t.suffix # "" /\ t.close)

\* the candidate of a row whose label cell and numeric cells are known;
\* value is parseNumber of the first numeric cell
cellCandidate(table, rowCells, labelCell, numericCells, value) ==
  IF ~Has(value)
    THEN <<>>
    ELSE << [value |-> Get(value),
             source |-> Source("Table", table.title, table.page,
                               rowCells[1].row),
             confidence |->
               (IF Len(numericCells) = 1 THEN 95 ELSE 90)
                 + (IF numericCells[1].col - labelCell.col < 3 THEN 3 ELSE 0),
             page |-> table.page,
             bbox |-> Some(numericCells[1].bbox),
             context |-> <<labelCell.text, numericCells[1].text>>] >>

numericCandidates(table, rowCells, labelCell, numericCells, scaleMultiplier) ==
  IF numericCells = <<>>
    THEN <<>>
    ELSE cellCandidate(table, rowCells, labelCell, numericCells,
                       parseNumber(numericCells[1].text, scaleMultiplier))

\* labelCellIndex is the index findIndex returns, from 1, or 0 for none
labelledCandidates(table, rowCells, sortedCells, labelCellIndex, scaleMultiplier) ==
  IF labelCellIndex = 0
    THEN <<>>
    ELSE numericCandidates(
           table, rowCells, sortedCells[labelCellIndex],
           SortByCol(SelectSeq(SubSeq(sortedCells, labelCellIndex + 1,
                                      Len(sortedCells)), IsNumericCell)),
           scaleMultiplier)

sortedRowCandidates(patterns, table, rowCells, sortedCells, scaleMultiplier) ==
  labelledCandidates(
    table, rowCells, sortedCells,
    FirstIndex({c \in 1 .. Len(sortedCells) :
                  \E k \in 1 .. Len(patterns) :
                    PatternTest(patterns[k], <<sortedCells[c].text>>)}),
    scaleMultiplier)

\* the candidates one row of one table contributes
RowCandidates(patterns, table, rowCells, scaleMultiplier) ==
  sortedRowCandidates(patterns, table, rowCells,
                      SortByCol(rowCells), scaleMultiplier)

extractFromTables(patterns, tables, scaleMultiplier) ==
  Flatten([t \in 1 .. Len(tables) |->
    Flatten([r \in 1 .. Len(tables[t].rows) |->
      RowCandidates(patterns, tables[t], tables[t].rows[r],
                    scaleMultiplier)])])

(***************************************************************************)
(* extractFromText.  The raw text is a sequence of lines                   *)
(* [kind, toks, wide, len]: kind is "text" for an ordinary line, "bs",     *)
(* "is", "cf" for a line that is the heading CONSOLIDATED BALANCE SHEETS,  *)
(* CONSOLIDATED STATEMENTS OF INCOME/OPERATIONS, CONSOLIDATED STATEMENTS   *)
(* OF CASH FLOWS, and "stop" for a line that starts with one of See,       *)
(* Notes, The accompanying; wide says that the line holds a tab or three   *)
(* spaces in a row; len is its length in characters.                       *)
(***************************************************************************)
EmptyLine == [kind |-> "text", toks |-> <<>>, wide |-> FALSE, len |-> 0]

MaxCapture == 10000

SparseLimit == 500

StopKinds == {"stop", "bs", "is", "cf"}

\* label phrases that hold a comma, which the numeral pattern [\d,]+ matches
CommaPhrases ==
  {"Property and equipment, net", "Property, plant and equipment",
   "Selling, general and administrative"}

\* the capital B, M or K a label phrase starts with, or ""
InitialBMK(phrase) ==
  IF phrase \in {"Basic earnings per share", "Basic net income per share"}
    THEN "B"
  ELSE IF phrase = "Marketable securities" THEN "M"
  ELSE ""

\* The texts handed to parseNumber for the matches of
\* /[\$\(]?\s*([\d,]+(?:\.[\d]+)?)\s*([BMK])?/g on a line, in order: the
\* digits and the suffix letter, without "$", "(" and ")".  A comma of a
\* label phrase is a match too, and is no number.
NumberMatches(toks) ==
  LET match(k) ==
        LET t == toks[k]
            follows == IF k < Len(toks) /\ toks[k + 1].kind = "label"
                         THEN InitialBMK(toks[k + 1].text) ELSE ""
        IN  IF t.kind = "num"
              THEN << [t EXCEPT !.dollar = FALSE, !.open = FALSE,
                                !.close = FALSE,
                                !.suffix = IF t.suffix \in {"B", "M", "K"}
                                             THEN t.suffix
                                           ELSE IF ~t.close THEN follows
                                           ELSE ""] >>
            ELSE IF t.text \in CommaPhrases THEN << Label(",") >>
            ELSE <<>>
  IN  Flatten([k \in 1 .. Len(toks) |-> match(k)])

InBounds(value, minValue, maxValue) ==
  MLe(minValue, value) /\ MLe(value, maxValue)

TextCandidate(value, sourceText, confidence, context) ==
  [value |-> value, source |-> TextSource(sourceText),
   confidence |-> confidence, page |-> 0, bbox |-> None,
   context |-> context]

\* the candidates pattern p adds for line lineIdx of a search text
LineCandidates(p, lines, lineIdx, isConsolidated, minValue, maxValue, scaleMultiplier) ==
  LET line == lines[lineIdx]
      nextLine == IF lineIdx < Len(lines) THEN lines[lineIdx + 1]
                                          ELSE EmptyLine
      sameLineNumberMatch == NumberMatches(line.toks)
      nextLineNumberMatch == NumberMatches(nextLine.toks)
      sameLine(parseText) ==
        LET value == parseNumber(parseText, scaleMultiplier)
        IN  IF Has(value) /\ InBounds(Get(value), minValue, maxValue)
              THEN << TextCandidate(
                        Get(value),
                        IF isConsolidated
                          THEN "Consolidated statement (same line)"
                          ELSE "Text extraction (same line)",
                        (IF isConsolidated THEN 90 ELSE 80)
                          + (IF MLt(Dollars(10000, 0), Get(value)) THEN 5 ELSE 0)
                          + (IF line.wide THEN 5 ELSE 0),
                        line.toks) >>
              ELSE <<>>
      nextLineCandidate ==
        IF nextLineNumberMatch = <<>>
          THEN <<>>
          ELSE
            LET value == parseNumber(nextLineNumberMatch[1], scaleMultiplier)
            IN  IF Has(value) /\ InBounds(Get(value), minValue, maxValue)
                  THEN << TextCandidate(
                            Get(value),
                            IF isConsolidated
                              THEN "Consolidated statement (next line)"
                              ELSE "Text extraction (next line)",
                            (IF isConsolidated THEN 75 ELSE 65)
                              + (IF MLt(Dollars(10000, 0), Get(value)) THEN 5 ELSE 0),
                            line.toks \o nextLine.toks) >>
                  ELSE <<>>
  IN  IF ~PatternTest(p, line.toks)
        THEN <<>>
      ELSE IF sameLineNumberMatch # <<>>
        THEN Flatten([k \in 1 .. Len(sameLineNumberMatch) |->
                        sameLine(sameLineNumberMatch[k])])
      ELSE nextLineCandidate

\* the results one pass over a search text appends
SearchCandidates(patterns, lines, isConsolidated, minValue, maxValue, scaleMultiplier) ==
  Flatten([i \in 1 .. Len(lines) |->
    Flatten([j \in 1 .. Len(patterns) |->
      LineCandidates(patterns[j], lines, i, isConsolidated, minValue,
                     maxValue, scaleMultiplier)])])

SumLen(lines) ==
  LET sum[k \in 0 .. Len(lines)] ==
        IF k = 0 THEN 0 ELSE sum[k - 1] + lines[k].len + 1
  IN  sum[Len(lines)]

\* The capture group of one consolidated-section pattern: the text from the
\* first heading of the kind up to the next stop marker or the end of the
\* text, when that is at most MaxCapture characters.  [lines, len], len 0
\* when the pattern does not match or captures nothing.
SectionCapture(rawLines, kind) ==
  LET n == Len(rawLines)
      stopOf(h) ==
        IF \E s \in h + 1 .. n : rawLines[s].kind \in StopKinds
          THEN SetMin({s \in h + 1 .. n : rawLines[s].kind \in StopKinds})
          ELSE n + 1
      content(h) == SubSeq(rawLines, h + 1, stopOf(h) - 1)
      length(h) == SumLen(content(h)) + (IF stopOf(h) <= n THEN 1 ELSE 0)
      heads == {h \in 1 .. n : rawLines[h].kind = kind
                               /\ length(h) <= MaxCapture}
  IN  IF heads = {}
        THEN [lines |-> <<>>, len |-> 0]
        ELSE [lines |-> content(SetMin(heads)),
              len |-> length(SetMin(heads))]

\* consolidatedText, as its lines and its length
ConsolidatedText(rawLines) ==
  LET caps == << SectionCapture(rawLines, "bs"),
                 SectionCapture(rawLines, "is"),
                 SectionCapture(rawLines, "cf") >>
      piece(k) == IF caps[k].len > 0
                    THEN caps[k].lines \o <<EmptyLine>> ELSE <<>>
      plen(k) == IF caps[k].len > 0 THEN caps[k].len + 2 ELSE 0
  IN  [lines |-> piece(1) \o piece(2) \o piece(3),
       len |-> plen(1) + plen(2) + plen(3)]

\* every result of the consolidated pass returned, the next-line ones too
consolidatedResultsAll(fromConsolidated) == fromConsolidated

\* the results of the consolidated pass, when it found any
consolidatedResults(fromConsolidated) ==
  IF SelectSeq(fromConsolidated,
               LAMBDA r : r.source.text = "Consolidated statement (same line)")
       # <<>>
    THEN SelectSeq(fromConsolidated,
                   LAMBDA r : r.source.text
                                = "Consolidated statement (same line)")
    ELSE fromConsolidated

searchConsolidated(patterns, minValue, maxValue, rawLines, scaleMultiplier, fromConsolidated) ==
  IF fromConsolidated # <<>>
    THEN consolidatedResults(fromConsolidated)
    ELSE SearchCandidates(patterns, rawLines, FALSE, minValue, maxValue,
                          scaleMultiplier)

searchText(patterns, minValue, maxValue, rawLines, scaleMultiplier, consolidated) ==
  IF consolidated.len > SparseLimit
    THEN searchConsolidated(
           patterns, minValue, maxValue, rawLines, scaleMultiplier,
           SearchCandidates(patterns, consolidated.lines, TRUE, minValue,
                            maxValue, scaleMultiplier))
    ELSE SearchCandidates(patterns, rawLines, FALSE, minValue, maxValue,
                          scaleMultiplier)

extractFromText(patterns, minValue, maxValue, rawLines, scaleMultiplier) ==
  searchText(patterns, minValue, maxValue, rawLines, scaleMultiplier,
             ConsolidatedText(rawLines))

(***************************************************************************)
(* extractField: the pooled candidates, their ranking, the best one.       *)
(***************************************************************************)
\* /revenue|assets|liabilities|equity/.test(fieldName) on the field names
\* of FieldSpecs
CriticalFieldNames ==
  {"total_assets", "total_liabilities", "total_equity", "total_revenue",
   "cost_of_revenue"}

\* a comparator that prefers the larger value for every field
CompareByValue(critical, a, b) ==
  IF MLt(a.value, b.value) THEN 1
  ELSE IF a.value = b.value THEN 0 ELSE -1

\* the comparator handed to candidates.sort, called as comparefn(a, b)
Compare(critical, a, b) ==
  LET valueDiff == MSub(b.value, a.value)
  IN  IF critical /\ MGtDiv(MAbs(valueDiff), a.value, 2)
        THEN IF MLt(MZero, valueDiff) THEN 1
             ELSE IF valueDiff = MZero THEN 0 ELSE -1
        ELSE b.confidence - a.confidence

(***************************************************************************)
(* Array.prototype.sort as the engine runs it on an array of fewer than 64 *)
(* elements (V8: one run counted and made ascending, the rest inserted by  *)
(* binary insertion).  The critical comparator is not a consistent         *)
(* comparator, so the result is the one this sequence of comparisons       *)
(* yields; arrays are indexed from 1 here.                                 *)
(***************************************************************************)
Reverse(s) == Array([k \in 1 .. Len(s) |-> s[Len(s) + 1 - k]])

\* the length of the run that starts the array: idx is the next index to
\* compare with its predecessor
RECURSIVE RunEnd(_, _, _, _)
RunEnd(critical, arr, idx, isDescending) ==
  IF idx > Len(arr)
    THEN Len(arr)
    ELSE LET order == Compare(critical, arr[idx], arr[idx - 1])
         IN  IF (isDescending /\ order >= 0) \/ (~isDescending /\ order < 0)
               THEN idx - 1
               ELSE RunEnd(critical, arr, idx + 1, isDescending)

madeAscending(arr, isDescending, runLength) ==
  [runLength |-> runLength,
   arr |-> IF isDescending
             THEN Reverse(SubSeq(arr, 1, runLength))
                    \o SubSeq(arr, runLength + 1, Len(arr))
             ELSE arr]

countRun(critical, arr, isDescending) ==
  madeAscending(arr, isDescending, RunEnd(critical, arr, 3, isDescending))

CountRunAndMakeAscending(critical, arr) ==
  countRun(critical, arr, Compare(critical, arr[2], arr[1]) < 0)

\* the place of pivot among arr[left + 1 .. right]: the number of elements
\* that stay in front of it
RECURSIVE BinarySearch(_, _, _, _, _)
BinarySearch(critical, arr, pivot, left, right) ==
  IF left >= right
    THEN left
    ELSE LET mid == left + ((right - left) \div 2)
         IN  IF Compare(critical, pivot, arr[mid + 1]) < 0
               THEN BinarySearch(critical, arr, pivot, left, mid)
               ELSE BinarySearch(critical, arr, pivot, mid + 1, right)

\* arr with arr[start] moved behind the first left elements
insertAt(arr, start, left) ==
  SubSeq(arr, 1, left) \o <<arr[start]>>
    \o SubSeq(arr, left + 1, start - 1)
    \o SubSeq(arr, start + 1, Len(arr))

\* arr[1 .. start - 1] is sorted; insert arr[start], arr[start + 1], ...
RECURSIVE BinaryInsertionSort(_, _, _)

BinaryInsertionSort(critical, arr, start) ==
  IF start > Len(arr)
    THEN arr
    ELSE BinaryInsertionSort(
           critical,
           insertAt(arr, start,
                    BinarySearch(critical, arr, arr[start], 0, start - 1)),
           start + 1)

sortFromRun(critical, run) ==
  BinaryInsertionSort(critical, run.arr, run.runLength + 1)

SortCandidates(critical, candidates) ==
  IF Len(candidates) < 2
    THEN candidates
    ELSE sortFromRun(critical, CountRunAndMakeAscending(critical, candidates))

\* the best candidate and the line logged for it; sorted is not empty
bestCandidate(fieldName, best) ==
  [result |-> Some(best),
   log |-> LogLine("SUCCESS", fieldName, best.confidence, best.value)]

\* a field without candidates reported as a candidate of value zero
rankCandidatesZero(fieldName, candidates) ==
  IF candidates = <<>>
    THEN [result |-> Some([value |-> MZero, source |-> TextSource("Not found"),
                           confidence |-> 0, page |-> 0, bbox |-> None,
                           context |-> <<>>]),
          log |-> LogLine("ERROR: No candidates found", fieldName, 0, MZero)]
    ELSE bestCandidate(
           fieldName,
           SortCandidates(fieldName \in CriticalFieldNames
                            /\ Len(candidates) > 1,
                          candidates)[1])

rankCandidates(fieldName, candidates) ==
  IF candidates = <<>>
    THEN [result |-> None,
          log |-> LogLine("ERROR: No candidates found", fieldName, 0, MZero)]
    ELSE bestCandidate(
           fieldName,
           SortCandidates(fieldName \in CriticalFieldNames
                            /\ Len(candidates) > 1,
                          candidates)[1])

\* [result, log]: the value extractField returns and the line it logs
extractField(spec, tables, rawLines, scaleMultiplier) ==
  rankCandidates(
    spec.fieldName,
    (IF Len(tables) > 0
       THEN extractFromTables(spec.patterns, tables, scaleMultiplier)
       ELSE <<>>)
      \o extractFromText(spec.patterns, spec.minValue, spec.maxValue,
                         rawLines, scaleMultiplier))

(***************************************************************************)
(* The financials: category -> slot -> optional ExtractionResult.          *)
(***************************************************************************)
Slots ==
  [assets |-> {"total", "current", "cash", "marketable_securities",
               "accounts_receivable", "property_equipment", "goodwill"},
   liabilities |-> {"total", "current", "long_term_debt", "accounts_payable"},
   equity |-> {"total", "retained_earnings"},
   revenues |-> {"total", "cost_of_revenue", "gross_profit"},
   expenses |-> {"research_development", "sales_marketing",
                 "general_administrative", "total_operating"},
   income |-> {"operating_income", "net_income", "earnings_per_share"},
   cash_flow |-> {"operating", "investing", "financing", "capex",
                  "free_cash_flow"}]

Categories == DOMAIN Slots

EmptyFinancials == [c \in Categories |-> [sl \in Slots[c] |-> None]]

Derived(value, sourceText, confidence, context) ==
  [value |-> value, source |-> TextSource(sourceText),
   confidence |-> confidence, page |-> 0, bbox |-> None,
   context |-> <<Label(context)>>]

\* equity derived whether or not the extraction found one
deriveEquityOverwriting(acc) ==
  LET assets == acc.financials.assets.total
      liabilities == acc.financials.liabilities.total
      derivedEquity == MSub(Get(assets).value, Get(liabilities).value)
  IN  IF Has(assets) /\ Has(liabilities) /\ MLt(MZero, derivedEquity)
        THEN [financials |->
                [acc.financials EXCEPT !.equity.total =
                   Some(Derived(derivedEquity,
                                "Derived (Assets - Liabilities)", 90,
                                "Calculated from balance sheet"))],
              log |-> Append(acc.log,
                             LogLine("SUCCESS: Derived equity", "", 0,
                                     derivedEquity))]
        ELSE acc

\* The three derivations of deriveMissingFields.  Each takes and returns
\* [financials, log]: the financials so far and the lines logged so far.
deriveEquity(acc) ==
  LET assets == acc.financials.assets.total
      liabilities == acc.financials.liabilities.total
      derivedEquity == MSub(Get(assets).value, Get(liabilities).value)
  IN  IF /\ ~Has(acc.financials.equity.total)
         /\ Has(assets) /\ Has(liabilities)
         /\ MLt(MZero, derivedEquity)
        THEN [financials |->
                [acc.financials EXCEPT !.equity.total =
                   Some(Derived(derivedEquity,
                                "Derived (Assets - Liabilities)", 90,
                                "Calculated from balance sheet"))],
              log |-> Append(acc.log,
                             LogLine("SUCCESS: Derived equity", "", 0,
                                     derivedEquity))]
        ELSE acc

\* a gross profit derived whatever its sign
deriveGrossProfitUnguarded(acc) ==
  LET revenue == acc.financials.revenues.total
      cost == acc.financials.revenues.cost_of_revenue
      derivedGrossProfit == MSub(Get(revenue).value, Get(cost).value)
  IN  IF /\ ~Has(acc.financials.revenues.gross_profit)
         /\ Has(revenue) /\ Has(cost)
        THEN [financials |->
                [acc.financials EXCEPT !.revenues.gross_profit =
                   Some(Derived(derivedGrossProfit,
                                "Derived (Revenue - Cost of Revenue)", 90,
                                "Calculated from income statement"))],
              log |-> Append(acc.log,
                             LogLine("SUCCESS: Derived gross profit", "", 0,
                                     derivedGrossProfit))]
        ELSE acc

deriveGrossProfit(acc) ==
  LET revenue == acc.financials.revenues.total
      cost == acc.financials.revenues.cost_of_revenue
      derivedGrossProfit == MSub(Get(revenue).value, Get(cost).value)
  IN  IF /\ ~Has(acc.financials.revenues.gross_profit)
         /\ Has(revenue) /\ Has(cost)
        THEN IF /\ MLt(MZero, derivedGrossProfit)
                /\ MLt(derivedGrossProfit, Get(revenue).value)
               THEN [financials |->
                       [acc.financials EXCEPT !.revenues.gross_profit =
                          Some(Derived(derivedGrossProfit,
                                       "Derived (Revenue - Cost of Revenue)",
                                       90,
                                       "Calculated from income statement"))],
                     log |-> Append(acc.log,
                                    LogLine("SUCCESS: Derived gross profit",
                                            "", 0, derivedGrossProfit))]
               ELSE [acc EXCEPT !.log =
                       Append(@, Msg("WARNING: Gross profit calculation failed"))]
        ELSE acc

\* free cash flow as operating cash flow less capex, the sign of capex kept
deriveFreeCashFlowSigned(acc) ==
  LET operating == acc.financials.cash_flow.operating
      capex == acc.financials.cash_flow.capex
      derivedFCF == MSub(Get(operating).value, Get(capex).value)
  IN  IF Has(operating) /\ Has(capex)
        THEN [financials |->
                [acc.financials EXCEPT !.cash_flow.free_cash_flow =
                   Some(Derived(derivedFCF,
                                "Derived (Operating CF - CapEx)", 95,
                                "Calculated from cash flow statement"))],
              log |-> Append(acc.log,
                             LogLine("SUCCESS: Derived free cash flow", "", 0,
                                     derivedFCF))]
        ELSE acc

\* free cash flow committed only when it is positive, as the other two
\* derivations are
deriveFreeCashFlowGated(acc) ==
  LET operating == acc.financials.cash_flow.operating
      capex == acc.financials.cash_flow.capex
      derivedFCF == MSub(Get(operating).value, MAbs(Get(capex).value))
  IN  IF Has(operating) /\ Has(capex) /\ MLt(MZero, derivedFCF)
        THEN [financials |->
                [acc.financials EXCEPT !.cash_flow.free_cash_flow =
                   Some(Derived(derivedFCF,
                                "Derived (Operating CF - CapEx)", 95,
                                "Calculated from cash flow statement"))],
              log |-> Append(acc.log,
                             LogLine("SUCCESS: Derived free cash flow", "", 0,
                                     derivedFCF))]
        ELSE acc

deriveFreeCashFlow(acc) ==
  LET operating == acc.financials.cash_flow.operating
      capex == acc.financials.cash_flow.capex
      derivedFCF == MSub(Get(operating).value, MAbs(Get(capex).value))
  IN  IF Has(operating) /\ Has(capex)
        THEN [financials |->
                [acc.financials EXCEPT !.cash_flow.free_cash_flow =
                   Some(Derived(derivedFCF,
                                "Derived (Operating CF - CapEx)", 95,
                                "Calculated from cash flow statement"))],
              log |-> Append(acc.log,
                             LogLine("SUCCESS: Derived free cash flow", "", 0,
                                     derivedFCF))]
        ELSE acc

\* [financials, log]: the financials after deriveMissingFields and the lines
\* it logs
deriveMissingFields(financials) ==
  deriveFreeCashFlow(
    deriveGrossProfit(
      deriveEquity(
        [financials |-> financials,
         log |-> << Msg("Deriving missing fields from financial relationships") >>])))

\* the results of the calls of extractField, in the order of FieldSpecs
extractFields(tables, rawLines, scaleMultiplier) ==
  Array([k \in 1 .. Len(FieldSpecs) |->
           extractField(FieldSpecs[k], tables, rawLines, scaleMultiplier)])

\* the object extractFinancials builds from the results of extractField
extracted(got, c, sl) ==
  got[CHOOSE k \in 1 .. Len(FieldSpecs) :
        FieldSpecs[k].cat = c /\ FieldSpecs[k].slot = sl].result

financialsOf(got) ==
  [assets |->
     [total |-> extracted(got, "assets", "total"),
      current |-> None,
      cash |-> extracted(got, "assets", "cash"),
      marketable_securities |->
        extracted(got, "assets", "marketable_securities"),
      accounts_receivable |-> extracted(got, "assets", "accounts_receivable"),
      property_equipment |-> extracted(got, "assets", "property_equipment"),
      goodwill |-> extracted(got, "assets", "goodwill")],
   liabilities |->
     [total |-> extracted(got, "liabilities", "total"),
      current |-> None,
      long_term_debt |-> extracted(got, "liabilities", "long_term_debt"),
      accounts_payable |-> extracted(got, "liabilities", "accounts_payable")],
   equity |->
     [total |-> extracted(got, "equity", "total"),
      retained_earnings |-> extracted(got, "equity", "retained_earnings")],
   revenues |->
     [total |-> extracted(got, "revenues", "total"),
      cost_of_revenue |-> extracted(got, "revenues", "cost_of_revenue"),
      gross_profit |-> extracted(got, "revenues", "gross_profit")],
   expenses |->
     [research_development |->
        extracted(got, "expenses", "research_development"),
      sales_marketing |-> extracted(got, "expenses", "sales_marketing"),
      general_administrative |->
        extracted(got, "expenses", "general_administrative"),
      total_operating |-> None],
   income |->
     [operating_income |-> extracted(got, "income", "operating_income"),
      net_income |-> extracted(got, "income", "net_income"),
      earnings_per_share |-> extracted(got, "income", "earnings_per_share")],
   cash_flow |->
     [operating |-> extracted(got, "cash_flow", "operating"),
      investing |-> None,
      financing |-> None,
      capex |-> extracted(got, "cash_flow", "capex"),
      free_cash_flow |-> None]]

extractedAndDerived(got, derived) ==
  [financials |-> derived.financials,
   log |-> << Msg("Extracting financial fields with multi-strategy approach") >>
             \o [k \in 1 .. Len(got) |-> got[k].log]
             \o derived.log]

derivedFrom(got) ==
  extractedAndDerived(got, deriveMissingFields(financialsOf(got)))

\* [financials, log]: the object extractFinancials returns and the lines it
\* logs; the fields are extracted in the order of FieldSpecs
extractFinancials(tables, rawLines, scaleMultiplier) ==
  derivedFrom(extractFields(tables, rawLines, scaleMultiplier))

(***************************************************************************)
(* cleanupImpossibleValues.                                                *)
(***************************************************************************)
\* a filter that rejects nothing
cleanupNothing(financials) ==
  [financials |-> financials,
   log |-> << Msg("Cleaning up impossible values") >>]

\* a filter with the rule on liabilities.total alone
cleanupLiabilitiesOnly(financials) ==
  LET reject ==
        /\ Has(financials.assets.total) /\ Has(financials.liabilities.total)
        /\ MLe(MAbs(MSub(Get(financials.assets.total).value,
                         Get(financials.liabilities.total).value)),
               MDivFloor(MSub(Get(financials.assets.total).value,
                              Dollars(0, 1)), 100))
  IN  [financials |->
         [financials EXCEPT
            !.liabilities.total = IF reject THEN None ELSE @],
       log |->
         << Msg("Cleaning up impossible values") >>
           \o (IF reject
                 THEN << LogLine("WARNING: Total Assets = Total Liabilities - rejecting liabilities",
                                 "", 0, Get(financials.assets.total).value) >>
                 ELSE <<>>)]

\* a filter that corrects a cash above total assets to total assets
cleanupClamping(financials) ==
  LET clamp ==
        /\ Has(financials.assets.total) /\ Has(financials.assets.cash)
        /\ MLt(Get(financials.assets.total).value,
               Get(financials.assets.cash).value)
  IN  [financials |->
         [financials EXCEPT
            !.assets.cash =
               IF clamp
                 THEN Some([Get(@) EXCEPT
                              !.value = Get(financials.assets.total).value])
                 ELSE @],
       log |->
         << Msg("Cleaning up impossible values") >>
           \o (IF clamp
                 THEN << Msg("WARNING: Cash > Total Assets - rejecting cash value") >>
                 ELSE <<>>)]

cleanupImpossibleValues(financials) ==
  LET assetsTotal == financials.assets.total
      rejectLiabilities ==
        /\ Has(assetsTotal) /\ Has(financials.liabilities.total)
        /\ LET assetVal == Get(assetsTotal).value
               liabVal == Get(financials.liabilities.total).value
           \* Math.abs(assetVal - liabVal) < assetVal * 0.01
           IN  MLe(MAbs(MSub(assetVal, liabVal)),
                   MDivFloor(MSub(assetVal, Dollars(0, 1)), 100))
      rejectCash ==
        /\ Has(assetsTotal) /\ Has(financials.assets.cash)
        /\ MLt(Get(assetsTotal).value, Get(financials.assets.cash).value)
      rejectSecurities ==
        /\ Has(assetsTotal) /\ Has(financials.assets.marketable_securities)
        /\ MLt(Get(assetsTotal).value,
               Get(financials.assets.marketable_securities).value)
      revenueTotal == financials.revenues.total
      \* x > revenue * 1.2, as x - revenue > revenue / 5
      exceeds(x) ==
        MGtDiv(MSub(x, Get(revenueTotal).value), Get(revenueTotal).value, 5)
      rejectOperating ==
        /\ Has(revenueTotal) /\ Has(financials.income.operating_income)
        /\ exceeds(Get(financials.income.operating_income).value)
      rejectNet ==
        /\ Has(revenueTotal) /\ Has(financials.income.net_income)
        /\ exceeds(Get(financials.income.net_income).value)
      rejectRD ==
        /\ Has(revenueTotal) /\ Has(financials.expenses.research_development)
        /\ MLt(Get(revenueTotal).value,
               Get(financials.expenses.research_development).value)
      unset(flag, old) == IF flag THEN None ELSE old
      line(flag, msg, amount) ==
        IF flag THEN << LogLine(msg, "", 0, amount) >> ELSE <<>>
  IN  [financials |->
         [financials EXCEPT
            !.liabilities.total = unset(rejectLiabilities, @),
            !.assets.cash = unset(rejectCash, @),
            !.assets.marketable_securities = unset(rejectSecurities, @),
            !.income.operating_income = unset(rejectOperating, @),
            !.income.net_income = unset(rejectNet, @),
            !.expenses.research_development = unset(rejectRD, @)],
       log |->
         << Msg("Cleaning up impossible values") >>
           \o line(rejectLiabilities,
                   "WARNING: Total Assets = Total Liabilities - rejecting liabilities",
                   IF Has(assetsTotal) THEN Get(assetsTotal).value ELSE MZero)
           \o line(rejectCash,
                   "WARNING: Cash > Total Assets - rejecting cash value", MZero)
           \o line(rejectSecurities,
                   "WARNING: Marketable Securities > Total Assets - rejecting",
                   MZero)
           \o line(rejectOperating,
                   "WARNING: Operating Income > Revenue - rejecting operating income",
                   MZero)
           \o line(rejectNet,
                   "WARNING: Net Income > Revenue - rejecting net income", MZero)
           \o line(rejectRD, "WARNING: R&D > Revenue - rejecting R&D", MZero)]

(***************************************************************************)
(* validateFinancials.  A warning is kept as its message and the amounts   *)
(* printed in it.  x?.value is falsy when the slot is unset or its value   *)
(* is 0.                                                                   *)
(***************************************************************************)
Warning(msg, a, b, c) == [msg |-> msg, a |-> a, b |-> b, c |-> c]

Truthy(slot) == Has(slot) /\ Get(slot).value # MZero

\* [warnings, log]
validateFinancials(financials, metadata) ==
  LET assets == financials.assets.total
      liabilities == financials.liabilities.total
      equity == financials.equity.total
      revenue == financials.revenues.total
      grossProfit == financials.revenues.gross_profit
      opIncome == financials.income.operating_income
      netIncome == financials.income.net_income
      cash == financials.assets.cash
      securities == financials.assets.marketable_securities
      v(slot) == Get(slot).value
      w1 == IF /\ Truthy(assets) /\ Truthy(liabilities) /\ Truthy(equity)
               /\ MGtDiv(MAbs(MSub(v(assets), MAdd(v(liabilities), v(equity)))),
                         v(assets), 20)
              THEN << Warning("Balance sheet doesn't balance", v(assets),
                              v(liabilities), v(equity)) >>
              ELSE <<>>
      w2a == IF /\ Truthy(revenue) /\ Truthy(grossProfit)
                /\ MLt(v(grossProfit), MZero)
               THEN << Warning("Gross profit is negative", v(grossProfit),
                               MZero, MZero) >>
               ELSE <<>>
      w2b == IF /\ Truthy(revenue) /\ Truthy(grossProfit)
                /\ MLt(v(revenue), v(grossProfit))
               THEN << Warning("Gross profit exceeds revenue", v(grossProfit),
                               v(revenue), MZero) >>
               ELSE <<>>
      w3 == IF /\ Truthy(grossProfit) /\ Truthy(opIncome)
               /\ MLt(v(grossProfit), v(opIncome))
              THEN << Warning("Operating income exceeds gross profit",
                              v(opIncome), v(grossProfit), MZero) >>
              ELSE <<>>
      \* netIncome > opIncome * 1.5, as netIncome - opIncome > opIncome / 2
      w4 == IF /\ Truthy(opIncome) /\ Truthy(netIncome)
               /\ MGtDiv(MSub(v(netIncome), v(opIncome)), v(opIncome), 2)
              THEN << Warning("Net income significantly exceeds operating income",
                              v(netIncome), v(opIncome), MZero) >>
              ELSE <<>>
      w5 == IF /\ Truthy(assets) /\ Truthy(cash) /\ Truthy(securities)
               /\ MLt(v(assets), MAdd(v(cash), v(securities)))
              THEN << Warning("Liquid assets exceed total assets",
                              MAdd(v(cash), v(securities)), v(assets), MZero) >>
              ELSE <<>>
      warnings == w1 \o w2a \o w2b \o w3 \o w4 \o w5
  IN  [warnings |-> warnings,
       log |-> IF Len(warnings) > 0
                 THEN << LogLine("WARNING: Found validation warnings", "",
                                 Len(warnings), MZero) >>
                 ELSE << Msg("SUCCESS: All validation checks passed") >>]

(***************************************************************************)
(* calculateConfidence.                                                    *)
(***************************************************************************)
CriticalWeight == 3

ImportantWeight == 2

OptionalWeight == 1

WarningPenalty == 5

MaxWarningPenalty == 20

\* Math.round(n / d * 100) for naturals n <= d, d > 0
RoundPercent(n, d) == (200 * n + d) \div (2 * d)

\* a score whose warning penalty has no upper limit
calculateConfidenceUncapped(financials, warnings) ==
  LET present ==
        << financials.revenues.total, financials.income.net_income,
           financials.assets.total, financials.liabilities.total,
           financials.equity.total >>
      important ==
        << financials.income.operating_income,
           financials.revenues.gross_profit, financials.assets.cash,
           financials.cash_flow.operating >>
      optional ==
        << financials.expenses.research_development,
           financials.expenses.sales_marketing, financials.cash_flow.capex,
           financials.assets.marketable_securities >>
      score == 3 * Len(SelectSeq(present, Has))
                 + 2 * Len(SelectSeq(important, Has))
                 + Len(SelectSeq(optional, Has))
      percent == ((200 * score + 27) \div 54) - 5 * Len(warnings)
      confidence ==
        IF percent < 0 THEN 0 ELSE IF percent > 100 THEN 100 ELSE percent
  IN  [confidence |-> confidence,
       log |-> << LogLine("Final confidence score", "", confidence, MZero) >>]

\* [confidence, log]
calculateConfidence(financials, warnings) ==
  LET criticalFields ==
        << financials.revenues.total, financials.income.net_income,
           financials.assets.total, financials.liabilities.total,
           financials.equity.total >>
      importantFields ==
        << financials.income.operating_income,
           financials.revenues.gross_profit, financials.assets.cash,
           financials.cash_flow.operating >>
      optionalFields ==
        << financials.expenses.research_development,
           financials.expenses.sales_marketing, financials.cash_flow.capex,
           financials.assets.marketable_securities >>
      count(fields) == Len(SelectSeq(fields, Has))
      score == CriticalWeight * count(criticalFields)
                 + ImportantWeight * count(importantFields)
                 + OptionalWeight * count(optionalFields)
      total == CriticalWeight * Len(criticalFields)
                 + ImportantWeight * Len(importantFields)
                 + OptionalWeight * Len(optionalFields)
      warningPenalty ==
        IF Len(warnings) * WarningPenalty < MaxWarningPenalty
          THEN Len(warnings) * WarningPenalty
          ELSE MaxWarningPenalty
      percent == RoundPercent(score, total) - warningPenalty
      \* Math.max(0, Math.min(100, percent))
      confidence ==
        IF percent < 0 THEN 0 ELSE IF percent > 100 THEN 100 ELSE percent
  IN  [confidence |-> confidence,
       log |-> << LogLine("Final confidence score", "", confidence, MZero) >>]

(***************************************************************************)
(* extractMetadata.  head says what the metadata patterns find in the raw  *)
(* text: company (the accepted company name, or ""), formType ("10-K",     *)
(* "10-Q", "8-K" or ""), ticker, cik, periodEnd ([text, year], both "" if  *)
(* no date is found), filingDate, fiscalYear (the year that follows        *)
(* "fiscal year", or "") and quarter ("Q1".."Q4" or "").                   *)
(***************************************************************************)
\* [metadata, log]
extractMetadata(head) ==
  LET companyLog ==
        IF head.company # ""
          THEN << LogLine("Extracted company name", head.company, 0, MZero) >>
          ELSE << Msg("Could not extract company name") >>
      typeLog ==
        IF head.formType \in {"10-K", "10-Q"}
          THEN << LogLine("Document type", head.formType, 0, MZero) >>
        ELSE IF head.formType = "8-K" THEN <<>>
        ELSE << Msg("Document type unknown") >>
      periodLog ==
        IF head.periodEnd.text # ""
          THEN << LogLine("Period end", head.periodEnd.text, 0, MZero) >>
          ELSE <<>>
      \* extractFiscalYear calls extractPeriodEnd again when no year follows
      \* "fiscal year"
      yearLog == IF head.fiscalYear = "" THEN periodLog ELSE <<>>
  IN  [metadata |->
         [company_name |-> IF head.company # "" THEN head.company
                                                ELSE "Unknown Company",
          ticker |-> head.ticker,
          cik |-> head.cik,
          period_end |-> head.periodEnd.text,
          filing_date |-> head.filingDate,
          document_type |-> IF head.formType # "" THEN head.formType
                                                  ELSE "Unknown",
          fiscal_year |-> IF head.fiscalYear # "" THEN head.fiscalYear
                                                  ELSE head.periodEnd.year,
          fiscal_quarter |-> head.quarter],
       log |-> companyLog \o periodLog \o typeLog \o yearLog]

(***************************************************************************)
(* The documents the parsers are built from.  A raw text is                *)
(* [decls, head, lines]; the words are a sequence of OCR words.            *)
(***************************************************************************)
MaxTextLines == 2

MaxRows == 4

MaxParses == 2

TextLine(toks) == [kind |-> "text", toks |-> toks, wide |-> FALSE, len |-> 40]

\* the lines a raw text of the model is made of, in their order in the text
TextMenu ==
  << TextLine(<<Label("Total assets"), Dollar(Num(900000))>>),
     TextLine(<<Label("Total liabilities"), Num(899500)>>),
     TextLine(<<Label("Total revenues"), Num(125843)>>),
     TextLine(<<Label("Total revenues"), Dollar(Num(125843))>>),
     TextLine(<<Label("Cost of revenues"), Num(50000)>>),
     TextLine(<<Label("Net cash provided by operating activities"),
                Num(110000)>>),
     TextLine(<<Label("Capital expenditures"), Paren(Num(120000))>>) >>

\* the rows the OCR words of the model are made of, top to bottom; the
\* cells of a row stand WordPitch pixels apart
WordMenu ==
  << <<Label("Total liabilities"), Num(45200), Num(2024)>>,
     <<Label("Net cash provided by operating activities"), Num(110000),
       Num(98000)>>,
     <<Label("Capital expenditures"), Paren(Num(10000)), Paren(Num(9000))>>,
     <<Label("Total assets"), Num(50), Num(60)>>,
     <<Label("See accompanying notes")>> >>

WordPitch == 100

\* the subsequences of 1 .. n with at most max elements, as sets of indices
Picks(n, max) == {S \in SUBSET (1 .. n) : Cardinality(S) <= max}

Pick(menu, S) ==
  Array([k \in 1 .. Cardinality(S) |-> menu[SetToSortedSeq(S)[k]]])

\* the words of the rows picked: one line per row, all on page 1
WordsOf(rows) ==
  Flatten([r \in 1 .. Len(rows) |->
    [c \in 1 .. Len(rows[r]) |->
       [text |-> rows[r][c],
        bbox |-> [x |-> c * WordPitch, y |-> r * 20, width |-> 60,
                  height |-> 12],
        confidence |-> 90,
        line |-> r,
        page |-> 1]]])

NoHead ==
  [company |-> "", formType |-> "", ticker |-> "", cik |-> "",
   periodEnd |-> [text |-> "", year |-> ""], filingDate |-> "", fiscalYear |-> "",
   quarter |-> ""]

RawTexts ==
  {[decls |-> d, head |-> NoHead, lines |-> Pick(TextMenu, S)] :
     d \in {{}, {"(in millions)"}, {"(in thousands)", "(in billions)"}},
     S \in Picks(Len(TextMenu), MaxTextLines)}

WordLists ==
  {WordsOf(Pick(WordMenu, S)) : S \in Picks(Len(WordMenu), MaxRows)}

EmptyText == [decls |-> {}, head |-> NoHead, lines |-> <<>>]

(***************************************************************************)
(* The parsers.  Each instance i has the fields of AnalystParser, its      *)
(* position in parse and the locals of parse; returned[i] holds the        *)
(* results parse has returned.  A result's tables_detected is the array    *)
(* this.tables itself, not a copy: it is kept as the instance whose array  *)
(* it is.  Its extraction_log is the array this.log, which the next parse  *)
(* replaces by a new array, so it is kept by value.                        *)
(*                                                                         *)
(* call is the method applied last when a method of the parser is applied  *)
(* on its own, to arguments of any kind: the method, what it was given and *)
(* what it gave.  While parse runs it is NoCall.                           *)
(***************************************************************************)
Instances == {1, 2}

VARIABLES rawText, words, documentScale, tables, log, pc, parses,
          metadata, financials, validation_warnings, extraction_confidence,
          returned, call

fields == <<rawText, words, documentScale, tables, log>>

locals == <<metadata, financials, validation_warnings, extraction_confidence>>

vars == <<fields, locals, pc, parses, returned, call>>

NoCall == [fn |-> "none"]

\* the state after new AnalystParser(text[i], list[i]) for each instance i
Constructed(text, list) ==
  /\ rawText = text
  /\ words = list
  /\ documentScale = [i \in Instances |-> DefaultScale]
  /\ tables = [i \in Instances |-> <<>>]
  /\ log = [i \in Instances |-> <<>>]
  /\ pc = [i \in Instances |-> "idle"]
  /\ parses = [i \in Instances |-> 0]
  /\ metadata = [i \in Instances |-> extractMetadata(NoHead).metadata]
  /\ financials = [i \in Instances |-> EmptyFinancials]
  /\ validation_warnings = [i \in Instances |-> <<>>]
  /\ extraction_confidence = [i \in Instances |-> 0]
  /\ returned = [i \in Instances |-> <<>>]

logStep(i, lines) == log' = [log EXCEPT ![i] = @ \o lines]

Goto(i, next) == pc' = [pc EXCEPT ![i] = next]

\* parse, up to the call of detectDocumentScale
ParseStart(i) ==
  /\ pc[i] = "idle"
  /\ parses[i] < MaxParses
  /\ log' = [log EXCEPT ![i] =
               << Msg("Starting advanced financial document parsing") >>]
  /\ Goto(i, "scale")
  /\ UNCHANGED <<call, rawText, words, documentScale, tables, locals, parses,
                 returned>>

\* a scale kept in one place for all parsers: detectDocumentScale of one
\* parser sets the scale every parser reads
DetectDocumentScaleShared(i) ==
  /\ pc[i] = "scale"
  /\ documentScale' =
       [j \in Instances |-> DetectedScale(rawText[i].decls, documentScale[j])]
  /\ logStep(i, << ScaleLog(rawText[i].decls) >>)
  /\ Goto(i, "tables")
  /\ UNCHANGED <<call, rawText, words, tables, locals, parses, returned>>

DetectDocumentScale(i) ==
  /\ pc[i] = "scale"
  /\ documentScale' =
       [documentScale EXCEPT ![i] = DetectedScale(rawText[i].decls, @)]
  /\ logStep(i, << ScaleLog(rawText[i].decls) >>)
  /\ Goto(i, "tables")
  /\ UNCHANGED <<call, rawText, words, tables, locals, parses, returned>>

\* detectTables called whatever the words are
DetectTablesAlways(i) ==
  /\ pc[i] = "tables"
  /\ tables' = [tables EXCEPT ![i] = detectTables(words[i], @)]
  /\ logStep(i, << Msg("Detecting tables from position data"),
                   LogLine("Detected tables", "", Len(tables'[i]), MZero) >>)
  /\ Goto(i, "metadata")
  /\ UNCHANGED <<call, rawText, words, documentScale, locals, parses, returned>>

\* if (this.words.length > 0) this.detectTables()
DetectTables(i) ==
  /\ pc[i] = "tables"
  /\ IF Len(words[i]) > 0
       THEN /\ tables' = [tables EXCEPT ![i] = detectTables(words[i], @)]
            /\ logStep(i, << Msg("Detecting tables from position data"),
                             LogLine("Detected tables", "",
                                     Len(tables'[i]), MZero) >>)
       ELSE UNCHANGED <<call, tables, log>>
  /\ Goto(i, "metadata")
  /\ UNCHANGED <<call, rawText, words, documentScale, locals, parses, returned>>

SetMetadata(i, got) ==
  /\ metadata' = [metadata EXCEPT ![i] = got.metadata]
  /\ logStep(i, got.log)

ExtractMetadata(i) ==
  /\ pc[i] = "metadata"
  /\ SetMetadata(i, extractMetadata(rawText[i].head))
  /\ Goto(i, "financials")
  /\ UNCHANGED <<call, rawText, words, documentScale, tables, financials,
                 validation_warnings, extraction_confidence, parses,
                 returned>>

\* got is [financials, log]: what a stage makes of the financials and logs
SetFinancials(i, got) ==
  /\ financials' = [financials EXCEPT ![i] = got.financials]
  /\ logStep(i, got.log)

\* const financials = this.extractFinancials(), deriveMissingFields included
ExtractFinancials(i) ==
  /\ pc[i] = "financials"
  /\ SetFinancials(i, extractFinancials(tables[i], rawText[i].lines,
                                        documentScale[i].multiplier))
  /\ Goto(i, "cleanup")
  /\ UNCHANGED <<call, rawText, words, documentScale, tables, metadata,
                 validation_warnings, extraction_confidence, parses,
                 returned>>

CleanupImpossibleValues(i) ==
  /\ pc[i] = "cleanup"
  /\ SetFinancials(i, cleanupImpossibleValues(financials[i]))
  /\ Goto(i, "validate")
  /\ UNCHANGED <<call, rawText, words, documentScale, tables, metadata,
                 validation_warnings, extraction_confidence, parses,
                 returned>>

SetWarnings(i, got) ==
  /\ validation_warnings' = [validation_warnings EXCEPT ![i] = got.warnings]
  /\ logStep(i, got.log)

ValidateFinancials(i) ==
  /\ pc[i] = "validate"
  /\ SetWarnings(i, validateFinancials(financials[i], metadata[i]))
  /\ Goto(i, "confidence")
  /\ UNCHANGED <<call, rawText, words, documentScale, tables, metadata, financials,
                 extraction_confidence, parses, returned>>

SetConfidence(i, got) ==
  /\ extraction_confidence' =
       [extraction_confidence EXCEPT ![i] = got.confidence]
  /\ logStep(i, got.log)

CalculateConfidence(i) ==
  /\ pc[i] = "confidence"
  /\ SetConfidence(i, calculateConfidence(financials[i],
                                          validation_warnings[i]))
  /\ Goto(i, "return")
  /\ UNCHANGED <<call, rawText, words, documentScale, tables, metadata, financials,
                 validation_warnings, parses, returned>>

\* the object parse returns; tables_detected names the instance whose
\* this.tables array the result holds
Return(i) ==
  /\ pc[i] = "return"
  /\ returned' =
       [returned EXCEPT ![i] =
          Append(@, [metadata |-> metadata[i],
                     financials |-> financials[i],
                     tables_detected |-> i,
                     extraction_confidence |-> extraction_confidence[i],
                     validation_warnings |-> validation_warnings[i],
                     extraction_log |-> log[i]])]
  /\ parses' = [parses EXCEPT ![i] = @ + 1]
  /\ Goto(i, "idle")
  /\ UNCHANGED <<call, fields, locals>>

Stage(i) ==
  \/ ParseStart(i)
  \/ DetectDocumentScale(i)
  \/ DetectTables(i)
  \/ ExtractMetadata(i)
  \/ ExtractFinancials(i)
  \/ CleanupImpossibleValues(i)
  \/ ValidateFinancials(i)
  \/ CalculateConfidence(i)
  \/ Return(i)

\* One parser, which may parse its document more than once.
Init ==
  /\ \E t \in RawTexts, w \in WordLists :
       Constructed([i \in Instances |-> IF i = 1 THEN t ELSE EmptyText],
                   [i \in Instances |-> IF i = 1 THEN w ELSE <<>>])
  /\ call = NoCall

Next == Stage(1)

Spec == Init /\ [][Next]_vars

\* the ParseResult a caller reads: tables_detected is read through the
\* reference the result holds
Result(i, k) ==
  [returned[i][k] EXCEPT !.tables_detected = tables[returned[i][k].tables_detected]]

(***************************************************************************)
(* Two parsers, each built from its own document, their stages interleaved *)
(* in any order.                                                           *)
(***************************************************************************)
ConcurrentTexts ==
  {[decls |-> {"(in millions)"}, head |-> NoHead,
    lines |-> Pick(TextMenu, {1, 2})],
   [decls |-> {"(in thousands)", "(in billions)"}, head |-> NoHead,
    lines |-> Pick(TextMenu, {4, 6})]}

ConcurrentWordLists == {<<>>, WordsOf(Pick(WordMenu, {1, 2, 3, 5}))}

InitConcurrent ==
  /\ \E t1 \in ConcurrentTexts, t2 \in ConcurrentTexts,
        w1 \in ConcurrentWordLists, w2 \in ConcurrentWordLists :
       Constructed([i \in Instances |-> IF i = 1 THEN t1 ELSE t2],
                   [i \in Instances |-> IF i = 1 THEN w1 ELSE w2])
  /\ call = NoCall

NextConcurrent == \E i \in Instances : Stage(i)

SpecConcurrent == InitConcurrent /\ [][NextConcurrent]_vars

(***************************************************************************)
(* The company endpoint, GET /api/company/[symbol].  fmp is what the data  *)
(* provider holds for the symbol and how its endpoints answer: key (the    *)
(* API key is configured), profileOk (the profile request succeeds),       *)
(* profile, metrics and income (the first record of the profile, the       *)
(* key-metrics and the income-statement endpoints, None when the endpoint  *)
(* has no record), incomeThrows (the income request fails).  A number that *)
(* is missing, null or 0 is 0.  A response is [status, error, shares].     *)
(***************************************************************************)
Json(shares) == [status |-> 200, error |-> "", shares |-> shares]

ErrorJson(error, status) == [status |-> status, error |-> error, shares |-> 0]

\* let shares = profile.sharesOutstanding || 0, and the fallbacks that
\* follow; mktCap / price is exact, the market capitalisations of Providers
\* being multiples of the prices
shares(profile, income) ==
  IF profile.sharesOutstanding # 0 THEN profile.sharesOutstanding
  ELSE IF income.weightedAverageShsOut # 0 THEN income.weightedAverageShsOut
  ELSE IF profile.mktCap # 0 /\ profile.price # 0
    THEN profile.mktCap \div profile.price
  ELSE 0

GET(fmp) ==
  IF ~fmp.key THEN ErrorJson("FMP API key not configured", 500)
  ELSE IF ~fmp.profileOk THEN ErrorJson("Failed to fetch company profile", 500)
  ELSE IF ~Has(fmp.profile) THEN ErrorJson("Company not found", 404)
  ELSE IF fmp.incomeThrows THEN ErrorJson("Failed to fetch company data", 500)
  ELSE Json(shares(Get(fmp.profile),
                   \* const income = incomeData[0] || {}
                   IF Has(fmp.income) THEN Get(fmp.income)
                   ELSE [weightedAverageShsOut |-> 0,
                         weightedAverageShsOutDil |-> 0]))

\* what the provider may hold for a symbol
Providers ==
  [key : BOOLEAN, profileOk : BOOLEAN, incomeThrows : BOOLEAN,
   profile : {None} \cup
             {Some(p) : p \in [sharesOutstanding : {0, 100},
                               mktCap : {0, 1000}, price : {0, 2}]},
   metrics : {None} \cup {Some(m) : m \in [sharesOutstanding : {0, 200}]},
   income : {None} \cup
            {Some(n) : n \in [weightedAverageShsOut : {0, 300},
                              weightedAverageShsOutDil : {0, 400}]}]

InitCompany ==
  /\ Constructed([i \in Instances |-> EmptyText], [i \in Instances |-> <<>>])
  /\ \E fmp \in Providers :
       call = [fn |-> "request", fmp |-> fmp, response |-> None]

GETCall ==
  /\ call.fn = "request"
  /\ call' = [call EXCEPT !.fn = "GET", !.response = Some(GET(call.fmp))]
  /\ UNCHANGED <<fields, locals, pc, parses, returned>>

NextCompany == GETCall

SpecCompany == InitCompany /\ [][NextCompany]_vars

(***************************************************************************)
(* The upload endpoint, handler of /api/parse.  call holds the request     *)
(* being handled: method, at (the await at which handler is suspended),    *)
(* headersSent and sent (res.headersSent and the responses written to res, *)
(* each a status and an error message), requestTimeout (the 50-second      *)
(* timer: "unset", "armed", "cleared" or "fired"), tempFilePath (the       *)
(* uploaded file is on disk), ocr (scribe.init has succeeded), skipRec     *)
(* (the PDF has a text layer), ocrWords (word positions were collected)    *)
(* and error (the message of the error caught, "" if none).  Node runs a   *)
(* callback to its next await without interruption, so an action is what   *)
(* handler does between two awaits, and the timer callback is an action of *)
(* its own, taken between any two of them while the timer is armed.        *)
(***************************************************************************)
\* res.status(status).json({ error, ... })
Send(c, status, error) ==
  [c EXCEPT !.headersSent = TRUE,
            !.sent = Append(@, [status |-> status, error |-> error])]

\* if (!res.headersSent) res.status(status).json({ error, ... })
SendOnce(c, status, error) ==
  IF c.headersSent THEN c ELSE Send(c, status, error)

clearTimeout(c) ==
  [c EXCEPT !.requestTimeout = IF @ = "armed" THEN "cleared" ELSE @]

\* a timer callback that does not look at res.headersSent
requestTimeoutUnguarded(c) ==
  Send([c EXCEPT !.requestTimeout = "fired"], 504, "Request timeout")

\* the callback given to setTimeout
requestTimeout(c) ==
  SendOnce([c EXCEPT !.requestTimeout = "fired"], 504, "Request timeout")

\* the errors handler catches; the messages of withTimeout say 'timed out'
\* error.message.includes('timeout')
IncludesTimeout(message) == message = "socket timeout"

\* error.message.includes('Forbidden')
IncludesForbidden(message) == message = "Forbidden"

NewRequest(method) ==
  [fn |-> "handler", method |-> method, at |-> "start",
   headersSent |-> FALSE, sent |-> <<>>, requestTimeout |-> "unset",
   tempFilePath |-> FALSE, ocr |-> FALSE, skipRec |-> FALSE,
   ocrWords |-> FALSE,
   error |-> ""]

InitUpload ==
  /\ Constructed([i \in Instances |-> EmptyText], [i \in Instances |-> <<>>])
  /\ \E method \in {"POST", "GET"} : call = NewRequest(method)

Resume(c) ==
  /\ call' = c
  /\ UNCHANGED <<fields, locals, pc, parses, returned>>

\* the catch block inside the callback of form.parse, up to its await of
\* scribeInstance.clear()
Caught(c, message) ==
  [c EXCEPT !.tempFilePath = FALSE, !.error = message, !.at = "errorCleanup"]

\* handler, up to await import('formidable')
HandlerStart ==
  /\ call.fn = "handler" /\ call.at = "start"
  /\ LET armed == [call EXCEPT !.requestTimeout = "armed"]
     IN  IF call.method # "POST"
           THEN Resume([Send(clearTimeout(armed), 405, "Method not allowed")
                          EXCEPT !.at = "done"])
           ELSE Resume([armed EXCEPT !.at = "imports"])

\* the imports resolve and form.parse is called, or one of them rejects and
\* the outer catch answers
Imported ==
  /\ call.fn = "handler" /\ call.at = "imports"
  /\ \/ Resume([call EXCEPT !.at = "upload"])
     \/ \E message \in {"socket timeout", "Forbidden", "Failed to import PDF file"} :
          Resume([(IF IncludesTimeout(message) \/ IncludesForbidden(message)
                     THEN SendOnce(clearTimeout(call), 504,
                                   "Request timed out")
                     ELSE SendOnce(clearTimeout(call), 500, message))
                    EXCEPT !.error = message, !.at = "done"])

\* the callback of form.parse, up to await scribe.init
FormParsed ==
  /\ call.fn = "handler" /\ call.at = "upload"
  /\ \/ \* err, or no file
        \E message \in {"File too large. Maximum size is 50MB.",
                         "Invalid file format. Please upload a PDF file.",
                         "No file provided or file upload failed"} :
          Resume([SendOnce(call, 400, message) EXCEPT !.at = "done"])
     \/ \E message \in {"Uploaded file not found on server",
                         "Uploaded file is empty",
                         "Only PDF files are supported"} :
          Resume(Caught([call EXCEPT !.tempFilePath = TRUE], message))
     \/ Resume([call EXCEPT !.tempFilePath = TRUE, !.at = "init"])

\* scribe.init settles, or its 8 seconds pass; a failure is ignored
OcrInitialized ==
  /\ call.fn = "handler" /\ call.at = "init"
  /\ \E initialised \in BOOLEAN :
       Resume([call EXCEPT !.ocr = initialised, !.at = "importFiles"])

\* scribe.importFiles settles
FilesImported ==
  /\ call.fn = "handler" /\ call.at = "importFiles"
  /\ \/ \E message \in {"PDF import timed out", "Failed to import PDF file",
                         "socket timeout"} :
          Resume(Caught(call, message))
     \/ \* a text PDF: recognition is skipped
        Resume([call EXCEPT !.skipRec = TRUE, !.at = "exportData"])
     \/ Resume([call EXCEPT !.at = "recognize"])

\* scribe.recognize settles, or its 30 seconds pass; a failure is ignored
Recognized ==
  /\ call.fn = "handler" /\ call.at = "recognize"
  /\ Resume([call EXCEPT !.at = "exportData"])

\* scribe.exportData settles; up to await import('../../lib/parser.ts')
DataExported ==
  /\ call.fn = "handler" /\ call.at = "exportData"
  /\ \/ \E message \in {"Failed to extract text from PDF",
                         "No text could be extracted from the PDF"} :
          Resume(Caught(call, message))
     \/ \E collected \in {w \in BOOLEAN : w => ~call.skipRec} :
          Resume([call EXCEPT !.ocrWords = collected, !.at = "parser"])

\* new AnalystParser(...) and parser.parse(), which runs without an await
ParserImported ==
  /\ call.fn = "handler" /\ call.at = "parser"
  /\ Resume([call EXCEPT !.at = "parse"])

\* withTimeout(parser.parse(), ...) settles; then unlinkSync and up to
\* await scribe.clear()
Parsed ==
  /\ call.fn = "handler" /\ call.at = "parse"
  /\ \/ Resume(Caught(call, "Financial data parsing timed out"))
     \/ Resume([call EXCEPT !.tempFilePath = FALSE, !.at = "cleanup"])

\* scribe.clear settles; clearTimeout and the response of a parsed document
CleanedUp ==
  /\ call.fn = "handler" /\ call.at = "cleanup"
  /\ Resume([SendOnce(clearTimeout(call), 200, "") EXCEPT !.at = "done"])

\* scribeInstance.clear settles in the catch block; clearTimeout and the
\* response of a failure
ErrorCleanedUp ==
  /\ call.fn = "handler" /\ call.at = "errorCleanup"
  /\ Resume([(IF IncludesTimeout(call.error)
                 THEN SendOnce(clearTimeout(call), 504,
                               "PDF processing timed out")
                 ELSE SendOnce(clearTimeout(call), 500, call.error))
               EXCEPT !.at = "done"])

\* the 50 seconds pass
RequestTimeout ==
  /\ call.fn = "handler" /\ call.requestTimeout = "armed"
  /\ Resume(requestTimeout(call))

NextUpload ==
  \/ HandlerStart
  \/ Imported
  \/ FormParsed
  \/ OcrInitialized
  \/ FilesImported
  \/ Recognized
  \/ DataExported
  \/ ParserImported
  \/ Parsed
  \/ CleanedUp
  \/ ErrorCleanedUp
  \/ RequestTimeout

SpecUpload == InitUpload /\ [][NextUpload]_vars

(***************************************************************************)
(* The methods of a parser applied on their own.  What follows the         *)
(* extraction of the fields is applied, in the order of parse, to the      *)
(* object extractFinancials has built from the results of extractField,    *)
(* whatever amounts the document gave them: call.financials is that object *)
(* as the method applied last has left it and call.before as it was given  *)
(* to that method.  parseNumber is applied to a numeral by a parser whose  *)
(* detectDocumentScale has run.                                            *)
(***************************************************************************)
MaxAmounts == 5

\* the amounts a document gives its fields
AmountMenu ==
  << Dollars(40000, 0), Dollars(100000, 0), Dollars(900000, 0),
     Dollars(899500, 0), Dollars(120000, 0), Dollars(-10000, 0) >>

\* the fields of a balance sheet, of an income statement and of a cash flow
\* statement
StatementSlots ==
  << << <<"assets", "total">>, <<"liabilities", "total">>,
        <<"equity", "total">>, <<"assets", "cash">>,
        <<"assets", "marketable_securities">> >>,
     << <<"revenues", "total">>, <<"revenues", "cost_of_revenue">>,
        <<"income", "operating_income">>, <<"income", "net_income">>,
        <<"expenses", "research_development">> >>,
     << <<"cash_flow", "operating">>, <<"cash_flow", "capex">> >> >>

\* the financials in which extractField found AmountMenu[a[k]] for the field
\* slots[k], and nothing where a[k] = 0 and for any other field
SchemaOver(slots, a) ==
  [c \in Categories |->
     [sl \in Slots[c] |->
        LET ks == {k \in DOMAIN slots : slots[k] = <<c, sl>> /\ a[k] # 0}
        IN  IF ks = {}
              THEN None
              ELSE Some(TextCandidate(AmountMenu[a[CHOOSE k \in ks : TRUE]],
                                      "Text extraction (same line)", 80,
                                      <<>>))]]

\* a document that gives every field the confidence score weighs, equity
\* and gross profit by derivation, and that no check warns about
FullSchema ==
  SchemaOver(<< <<"assets", "total">>, <<"liabilities", "total">>,
                <<"assets", "cash">>, <<"assets", "marketable_securities">>,
                <<"revenues", "total">>, <<"revenues", "cost_of_revenue">>,
                <<"income", "operating_income">>, <<"income", "net_income">>,
                <<"expenses", "research_development">>,
                <<"expenses", "sales_marketing">>,
                <<"cash_flow", "operating">>, <<"cash_flow", "capex">> >>,
             << 2, 1, 1, 1, 3, 1, 5, 2, 1, 1, 2, 1 >>)

\* a document whose fields draw each kind of warning but one: a balance
\* sheet that does not balance, liquid assets above total assets, a negative
\* gross profit, an operating income above it and a net income far above
\* the operating income
WarnedSchema ==
  SchemaOver(<< <<"assets", "total">>, <<"liabilities", "total">>,
                <<"equity", "total">>, <<"assets", "cash">>,
                <<"assets", "marketable_securities">>,
                <<"revenues", "total">>, <<"revenues", "gross_profit">>,
                <<"income", "operating_income">>,
                <<"income", "net_income">> >>,
             << 2, 1, 1, 2, 1, 3, 6, 1, 2 >>)

\* extractFinancials has built the object f from the results of
\* extractField and is about to call deriveMissingFields
Extracted(f) ==
  call = [fn |-> "extractField", before |-> f, financials |-> f,
          log |-> <<>>, warnings |-> <<>>, confidence |-> 0]

\* numerals and a text that is no number
NumberTokens ==
  {[kind |-> "num", text |-> "", dollar |-> d, open |-> o, close |-> c,
    int |-> n, frac |-> f, suffix |-> x] :
     d \in BOOLEAN, o \in BOOLEAN, c \in BOOLEAN, n \in {0, 2, 1234},
     f \in {0, 500}, x \in {"", "B", "M", "K", "b", "m", "k"}}
    \cup {Label("Total assets")}

MaxPositions == 3

\* the x positions, in pixels, the words of a table stand at
PositionMenu == << 0, 20, 21, 45, 50, 80 >>

\* parseTableFromWords is about to cluster the x positions xs of the words
\* of a table and to assign a column to the word that stands at x
TableWords(xs, x) ==
  call = [fn |-> "tableWords", xPositions |-> xs, x |-> x,
          columns |-> <<>>, col |-> 0]

MaxCandidates == 2

\* results of extractFromTables: [value, confidence] of candidates read
\* from the rows 0 and 1 of a table on page 1
TableResultMenu ==
  << [value |-> Dollars(100000, 0), confidence |-> 95],
     [value |-> Dollars(160000, 0), confidence |-> 90] >>

\* results of extractFromText: [value, confidence] of same-line candidates
TextResultMenu ==
  << [value |-> Dollars(160000, 0), confidence |-> 80],
     [value |-> Dollars(100000, 0), confidence |-> 95],
     [value |-> Dollars(40000, 0), confidence |-> 95] >>

\* the ways to list at most max of the indices 1 .. n, none twice
Arrangements(n, max) ==
  {s \in UNION {[1 .. m -> 1 .. n] : m \in 0 .. max} :
     \A j \in DOMAIN s : \A k \in DOMAIN s : s[j] = s[k] => j = k}

TableResults(s) ==
  Array([k \in DOMAIN s |->
           [value |-> TableResultMenu[s[k]].value,
            source |-> Source("Table", <<>>, 1, s[k] - 1),
            confidence |-> TableResultMenu[s[k]].confidence,
            page |-> 1, bbox |-> None, context |-> <<>>]])

TextResults(s) ==
  Array([k \in DOMAIN s |->
           TextCandidate(TextResultMenu[s[k]].value,
                         "Text extraction (same line)",
                         TextResultMenu[s[k]].confidence, <<>>)])

\* extractField of the field fieldName has got tableResults from
\* extractFromTables and textResults from extractFromText
Searched(fieldName, tableResults, textResults) ==
  call = [fn |-> "strategies", fieldName |-> fieldName,
          tableResults |-> tableResults, textResults |-> textResults,
          candidates |-> <<>>, result |-> None]

MaxDocLines == 7

\* the lines of a raw text with a consolidated balance sheet: its heading,
\* two lines without a numeral, the total on the line of its label, the
\* label alone on a line, a numeral alone on a line, a line that ends the
\* section, and a total in the notes after it
SectionMenu ==
  << [kind |-> "bs", toks |-> <<Label("CONSOLIDATED BALANCE SHEETS")>>,
      wide |-> FALSE, len |-> 27],
     [kind |-> "text", toks |-> <<Label("Current assets")>>,
      wide |-> TRUE, len |-> 455],
     [kind |-> "text", toks |-> <<Label("Goodwill")>>,
      wide |-> TRUE, len |-> 100],
     TextLine(<<Label("Total assets"), Dollar(Num(900000))>>),
     [kind |-> "text", toks |-> <<Label("Total assets")>>,
      wide |-> FALSE, len |-> 12],
     [kind |-> "text", toks |-> <<Dollar(Num(850000))>>,
      wide |-> FALSE, len |-> 9],
     [kind |-> "stop", toks |-> <<Label("See accompanying notes")>>,
      wide |-> FALSE, len |-> 22],
     TextLine(<<Label("Total assets"), Dollar(Num(800000))>>) >>

\* the field extractFromText is called for
TotalAssets ==
  FieldSpecs[CHOOSE k \in DOMAIN FieldSpecs :
               FieldSpecs[k].fieldName = "total_assets"]

InitMethods ==
  /\ \/ \E S \in Picks(Len(SectionMenu), MaxDocLines) :
          /\ Constructed(
               [i \in Instances |->
                  [EmptyText EXCEPT !.lines = Pick(SectionMenu, S)]],
               [i \in Instances |-> <<>>])
          /\ call = [fn |-> "rawText", results |-> <<>>]
     \/ /\ Constructed([i \in Instances |-> EmptyText],
                       [i \in Instances |-> <<>>])
        /\ \/ \E name \in {"total_assets", "capex"} :
                \E t \in Arrangements(Len(TableResultMenu), MaxCandidates) :
                  \E x \in Arrangements(Len(TextResultMenu), MaxCandidates) :
                    Searched(name, TableResults(t), TextResults(x))
           \/ \E S \in Picks(Len(PositionMenu), MaxPositions) :
                \E k \in S : TableWords(Pick(PositionMenu, S), PositionMenu[k])
           \/ \E g \in DOMAIN StatementSlots :
                \E a \in [1 .. Len(StatementSlots[g]) -> 0 .. MaxAmounts] :
                  Extracted(SchemaOver(StatementSlots[g], a))
           \/ Extracted(FullSchema)
           \/ Extracted(WarnedSchema)
     \/ \E d \in {{}, {"(in millions)"}, {"(in thousands)"},
                  {"(in billions)"}} :
          /\ Constructed([i \in Instances |-> [EmptyText EXCEPT !.decls = d]],
                         [i \in Instances |-> <<>>])
          /\ \E t \in NumberTokens :
               call = [fn |-> "numeral", text |-> t,
                       multiplier |-> DetectedScale(d, DefaultScale).multiplier,
                       value |-> None]

\* the method fn has been applied to call.financials
Called(fn, after, lines, warnings, confidence) ==
  /\ call' = [fn |-> fn, before |-> call.financials,
              financials |-> after, log |-> lines,
              warnings |-> warnings, confidence |-> confidence]
  /\ UNCHANGED <<fields, locals, pc, parses, returned>>

\* this.deriveMissingFields(financials), at the end of extractFinancials
DeriveMissingFieldsCall ==
  /\ call.fn = "extractField"
  /\ LET got == deriveMissingFields(call.financials)
     IN  Called("deriveMissingFields", got.financials, got.log,
                call.warnings, call.confidence)

\* this.cleanupImpossibleValues(financials)
CleanupImpossibleValuesCall ==
  /\ call.fn = "deriveMissingFields"
  /\ LET got == cleanupImpossibleValues(call.financials)
     IN  Called("cleanupImpossibleValues", got.financials, got.log,
                call.warnings, call.confidence)

\* a validation that acts on what it finds: it unsets the gross profit of
\* financials it warns about
ValidateFinancialsCallFiltering ==
  /\ call.fn = "cleanupImpossibleValues"
  /\ LET got == validateFinancials(call.financials, metadata[1])
     IN  Called("validateFinancials",
                IF Len(got.warnings) > 0
                  THEN [call.financials EXCEPT !.revenues.gross_profit = None]
                  ELSE call.financials,
                got.log, got.warnings, call.confidence)

\* this.validateFinancials(financials, metadata), which assigns to no part
\* of financials
ValidateFinancialsCall ==
  /\ call.fn = "cleanupImpossibleValues"
  /\ LET got == validateFinancials(call.financials, metadata[1])
     IN  Called("validateFinancials", call.financials, got.log,
                got.warnings, call.confidence)

\* this.calculateConfidence(financials, validation_warnings)
CalculateConfidenceCall ==
  /\ call.fn = "validateFinancials"
  /\ LET got == calculateConfidence(call.financials, call.warnings)
     IN  Called("calculateConfidence", call.financials, got.log,
                call.warnings, got.confidence)

\* this.parseNumber(text)
ParseNumberCall ==
  /\ call.fn = "numeral"
  /\ call' = [call EXCEPT !.fn = "parseNumber",
                          !.value = parseNumber(call.text, call.multiplier)]
  /\ UNCHANGED <<fields, locals, pc, parses, returned>>

\* const columns = this.detectColumnPositions(allX), allX sorted
DetectColumnPositionsCall ==
  /\ call.fn = "tableWords"
  /\ call' = [call EXCEPT
                !.fn = "detectColumnPositions",
                !.columns = detectColumnPositions(SortAscending(call.xPositions))]
  /\ UNCHANGED <<fields, locals, pc, parses, returned>>

\* const col = this.assignColumn(word.bbox.x, columns)
AssignColumnCall ==
  /\ call.fn = "detectColumnPositions"
  /\ call' = [call EXCEPT !.fn = "assignColumn",
                          !.col = assignColumn(call.x, call.columns)]
  /\ UNCHANGED <<fields, locals, pc, parses, returned>>

\* extractField from the pooling of the candidates on: the table results
\* are pushed first, then the text results, and the best is returned
ExtractFieldCall ==
  /\ call.fn = "strategies"
  /\ call' = [call EXCEPT
                !.fn = "rankCandidates",
                !.candidates = call.tableResults \o call.textResults,
                !.result = rankCandidates(
                             call.fieldName,
                             call.tableResults \o call.textResults).result]
  /\ UNCHANGED <<fields, locals, pc, parses, returned>>

\* const textResults = this.extractFromText(patterns, minValue, maxValue),
\* in extractField('total_assets', ...)
ExtractFromTextCall ==
  /\ call.fn = "rawText"
  /\ call' = [call EXCEPT
                !.fn = "extractFromText",
                !.results = extractFromText(TotalAssets.patterns,
                                            TotalAssets.minValue,
                                            TotalAssets.maxValue,
                                            rawText[1].lines,
                                            documentScale[1].multiplier)]
  /\ UNCHANGED <<fields, locals, pc, parses, returned>>

NextMethods ==
  \/ ExtractFromTextCall
  \/ ExtractFieldCall
  \/ DetectColumnPositionsCall
  \/ AssignColumnCall
  \/ DeriveMissingFieldsCall
  \/ CleanupImpossibleValuesCall
  \/ ValidateFinancialsCall
  \/ CalculateConfidenceCall
  \/ ParseNumberCall

SpecMethods == InitMethods /\ [][NextMethods]_vars

(***************************************************************************)
(* parse as one function of the document and of the fields the parser      *)
(* holds when parse is called: what a parser running alone returns.        *)
(***************************************************************************)
parseResult(text, tabs, got, cleaned, checked, scored) ==
  [metadata |-> extractMetadata(text.head).metadata,
   financials |-> cleaned.financials,
   tables_detected |-> tabs,
   extraction_confidence |-> scored.confidence,
   validation_warnings |-> checked.warnings,
   extraction_log |->
     << Msg("Starting advanced financial document parsing"),
        ScaleLog(text.decls) >>
       \o (IF tabs.ran
             THEN << Msg("Detecting tables from position data"),
                     LogLine("Detected tables", "", Len(tabs.tables), MZero) >>
             ELSE <<>>)
       \o extractMetadata(text.head).log
       \o got.log \o cleaned.log \o checked.log \o scored.log]

parseScored(text, tabs, got, cleaned, checked) ==
  parseResult(text, tabs, got, cleaned, checked,
              calculateConfidence(cleaned.financials, checked.warnings))

parseCleaned(text, tabs, got, cleaned) ==
  parseScored(text, tabs, got, cleaned,
              validateFinancials(cleaned.financials,
                                 extractMetadata(text.head).metadata))

parseExtracted(text, tabs, got) ==
  parseCleaned(text, tabs, got, cleanupImpossibleValues(got.financials))

parseTabled(text, tabs, scale) ==
  parseExtracted(text, tabs,
                 extractFinancials(tabs.tables, text.lines, scale.multiplier))

\* the ParseResult of parse, tables_detected read at once
parse(text, list, scaleBefore, tablesBefore) ==
  [parseTabled(text,
               [ran |-> Len(list) > 0,
                tables |-> IF Len(list) > 0
                             THEN detectTables(list, tablesBefore)
                             ELSE tablesBefore],
               DetectedScale(text.decls, scaleBefore))
     EXCEPT !.tables_detected = @.tables]

\* this.tables of a parser that has run parse n times, alone
RECURSIVE tablesAfter(_, _)
tablesAfter(list, n) ==
  IF n = 0 \/ Len(list) = 0
    THEN <<>>
    ELSE detectTables(list, tablesAfter(list, n - 1))

(***************************************************************************)
(* Properties.                                                             *)
(***************************************************************************)
\* the positions of parse at which extractFinancials, and with it
\* deriveMissingFields, has run
AfterDerivation == {"cleanup", "validate", "confidence", "return"}

IsDerived(slot, sourceText) ==
  Has(slot) /\ Get(slot).source.text = sourceText

DerivedEquity(f) == IsDerived(f.equity.total, "Derived (Assets - Liabilities)")

DerivedGrossProfit(f) ==
  IsDerived(f.revenues.gross_profit, "Derived (Revenue - Cost of Revenue)")

DerivedFreeCashFlow(f) ==
  IsDerived(f.cash_flow.free_cash_flow, "Derived (Operating CF - CapEx)")

\* C1: the filter has run when a derived field is computed: in a state the
\* filter has produced, every derived field is the derivation applied to
\* inputs that the filter has left in place.
C1_DerivationSeesFilteredValues ==
  \A i \in Instances :
    pc[i] \in {"validate", "confidence", "return"} =>
      LET f == financials[i]
      IN  /\ DerivedEquity(f) =>
               /\ Has(f.assets.total) /\ Has(f.liabilities.total)
               /\ Get(f.equity.total).value
                    = MSub(Get(f.assets.total).value,
                           Get(f.liabilities.total).value)
          /\ DerivedGrossProfit(f) =>
               /\ Has(f.revenues.total) /\ Has(f.revenues.cost_of_revenue)
               /\ Get(f.revenues.gross_profit).value
                    = MSub(Get(f.revenues.total).value,
                           Get(f.revenues.cost_of_revenue).value)
          /\ DerivedFreeCashFlow(f) =>
               /\ Has(f.cash_flow.operating) /\ Has(f.cash_flow.capex)
               /\ Get(f.cash_flow.free_cash_flow).value
                    = MSub(Get(f.cash_flow.operating).value,
                           MAbs(Get(f.cash_flow.capex).value))

InputsOfDerivedPresent(f) ==
  /\ DerivedEquity(f) => Has(f.assets.total) /\ Has(f.liabilities.total)
  /\ DerivedGrossProfit(f) =>
       Has(f.revenues.total) /\ Has(f.revenues.cost_of_revenue)
  /\ Has(f.cash_flow.free_cash_flow) =>
       Has(f.cash_flow.operating) /\ Has(f.cash_flow.capex)

\* C2: in every state of parse after derivation, and in every returned
\* ParseResult, a derived field is present only if both of its inputs are
\* present.
C2_DerivedOnlyWithInputs ==
  \A i \in Instances :
    /\ pc[i] \in AfterDerivation => InputsOfDerivedPresent(financials[i])
    /\ \A k \in DOMAIN returned[i] :
         InputsOfDerivedPresent(returned[i][k].financials)

\* the slot of the field of FieldSpecs[k] in financials f
SlotOf(f, k) == f[FieldSpecs[k].cat][FieldSpecs[k].slot]

\* C3: in every ParseResult, a slot populated by extraction holds a value
\* between the minValue and the maxValue of its field, from whichever
\* strategy the accepted candidate came.
C3_ExtractedValuesWithinBounds ==
  \A i \in Instances :
    \A k \in DOMAIN returned[i] :
      \A n \in DOMAIN FieldSpecs :
        LET f == returned[i][k].financials
            slot == SlotOf(f, n)
            derived ==
              \/ FieldSpecs[n].fieldName = "total_equity" /\ DerivedEquity(f)
              \/ FieldSpecs[n].fieldName = "gross_profit"
                   /\ DerivedGrossProfit(f)
        IN  (Has(slot) /\ ~derived) =>
              InBounds(Get(slot).value, FieldSpecs[n].minValue,
                       FieldSpecs[n].maxValue)

\* C4: parse called twice on identical inputs, on two parsers or twice on
\* one parser, returns results identical in every field (the log is kept
\* without its timestamps).
C4_ParseTwiceSameResult ==
  \A i \in Instances, j \in Instances :
    (rawText[i] = rawText[j] /\ words[i] = words[j]) =>
      \A k \in DOMAIN returned[i], l \in DOMAIN returned[j] :
        Result(i, k) = Result(j, l)

\* C5: a returned ParseResult is never changed afterwards: no step of a
\* parser alters what a result returned earlier holds.
C5_ReturnedResultImmutable ==
  [][\A i \in Instances :
       \A k \in DOMAIN returned[i] :
         /\ returned'[i][k] = returned[i][k]
         /\ tables'[returned[i][k].tables_detected]
              = tables[returned[i][k].tables_detected]]_vars

\* C6: when the stages of two parsers are interleaved in any order, every
\* result a parser returns is the result it returns when it runs alone:
\* a function of its own document and of the number of its own earlier
\* parses.
C6_InterleavedAsAlone ==
  \A i \in Instances :
    (pc[i] = "idle" /\ parses[i] > 0) =>
      Result(i, parses[i])
        = parse(rawText[i], words[i], DefaultScale,
                tablesAfter(words[i], parses[i] - 1))

\* both parsers have returned a result, from documents that differ in scale
\* and in tables
C6_Witness ==
  /\ \A i \in Instances : pc[i] = "idle" /\ parses[i] > 0
  /\ documentScale[1] # documentScale[2]
  /\ tables[1] # tables[2]
  /\ tables[1] # <<>>
  /\ Result(1, 1) # Result(2, 1)

ScenarioALine == TextLine(<<Label("Total revenues"), Num(125843)>>)

\* C7: when the raw text holds "(in millions)" and the line
\* "Total revenues  125,843" and no words are given, the result has
\* revenues.total = 125,843,000,000 with confidence >= 80 and no table.
C7_ScenarioA ==
  \A i \in Instances :
    \A k \in DOMAIN returned[i] :
      ( /\ "(in millions)" \in rawText[i].decls
        /\ \E n \in DOMAIN rawText[i].lines : rawText[i].lines[n] = ScenarioALine
        /\ words[i] = <<>> ) =>
        /\ Has(returned[i][k].financials.revenues.total)
        /\ Get(returned[i][k].financials.revenues.total).value
             = Dollars(125843, 0)
        /\ Get(returned[i][k].financials.revenues.total).confidence >= 80
        /\ Result(i, k).tables_detected = <<>>

ScenarioBRow == <<Label("Total liabilities"), Num(45200), Num(2024)>>

\* the lines of words that are numeric-dense
DenseLines(list) ==
  {n \in {list[k].line : k \in DOMAIN list} :
     Len(SelectSeq(list, LAMBDA w : w.line = n /\ IsNumberWord(w)))
       >= MinNumbersPerRow}

\* line n holds the cells of scenario B and lies in a run of at least
\* MinTableRows consecutive numeric-dense lines
ScenarioBLine(list, n) ==
  /\ Texts(SelectSeq(list, LAMBDA w : w.line = n)) = ScenarioBRow
  /\ \E a \in DenseLines(list), b \in DenseLines(list) :
       /\ a <= n /\ n <= b /\ b - a + 1 >= MinTableRows
       /\ \A m \in a .. b : m \in DenseLines(list)

TotalLiabilities ==
  FieldSpecs[CHOOSE k \in DOMAIN FieldSpecs :
               FieldSpecs[k].fieldName = "total_liabilities"]

\* C8: when the words hold the line "Total liabilities" "45,200" "2024" as a
\* row of a table (a run of numeric-dense lines), a table is detected and
\* the table candidate for liabilities.total is 45,200 times the scale
\* multiplier: the leftmost numeral right of the label, never 2024.
C8_ScenarioB ==
  \A i \in Instances :
    ( /\ pc[i] \in {"metadata", "financials"}
      /\ \E n \in DenseLines(words[i]) : ScenarioBLine(words[i], n) ) =>
      /\ tables[i] # <<>>
      /\ extractFromTables(TotalLiabilities.patterns, tables[i],
                           documentScale[i].multiplier) # <<>>
      /\ extractFromTables(TotalLiabilities.patterns, tables[i],
                           documentScale[i].multiplier)[1].value
           = NumTimes(45200, 0, documentScale[i].multiplier)

ScenarioC(f) ==
  /\ Has(f.cash_flow.operating) /\ Has(f.cash_flow.capex)
  /\ Get(f.cash_flow.operating).value = Dollars(110000, 0)
  /\ Get(f.cash_flow.capex).value = MNeg(Dollars(10000, 0))

\* C9, as the specification states it: with cash_flow.operating = 110e9 and
\* cash_flow.capex = -10e9 after extraction, free_cash_flow = 120e9.
C9_ScenarioC_AsStated ==
  \A i \in Instances :
    (pc[i] \in AfterDerivation /\ ScenarioC(financials[i])) =>
      /\ Has(financials[i].cash_flow.free_cash_flow)
      /\ Get(financials[i].cash_flow.free_cash_flow).value
           = Dollars(120000, 0)

\* C9, amended: with cash_flow.operating = 110e9 and cash_flow.capex = -10e9
\* after extraction, free_cash_flow = 110e9 - |-10e9| = 100e9, in every
\* state after derivation and in the returned result.
C9_ScenarioC ==
  \A i \in Instances :
    /\ (pc[i] \in AfterDerivation /\ ScenarioC(financials[i])) =>
         /\ Has(financials[i].cash_flow.free_cash_flow)
         /\ Get(financials[i].cash_flow.free_cash_flow).value
              = Dollars(100000, 0)
    /\ \A k \in DOMAIN returned[i] :
         ScenarioC(returned[i][k].financials) =>
           /\ Has(returned[i][k].financials.cash_flow.free_cash_flow)
           /\ Get(returned[i][k].financials.cash_flow.free_cash_flow).value
                = Dollars(100000, 0)

\* scenario C has been extracted and the derivation has run
C9_Witness ==
  /\ pc[1] = "cleanup"
  /\ ScenarioC(financials[1])
  /\ DerivedFreeCashFlow(financials[1])

\* C10: after derivation, free_cash_flow = operating - |capex| with
\* confidence 95 whenever cash_flow.operating and cash_flow.capex are both
\* present, whatever the sign of the result; it is unset when either is
\* absent.
C10_FreeCashFlow ==
  \A i \in Instances :
    pc[i] \in AfterDerivation =>
      LET cf == financials[i].cash_flow
      IN  IF Has(cf.operating) /\ Has(cf.capex)
            THEN /\ Has(cf.free_cash_flow)
                 /\ Get(cf.free_cash_flow).value
                      = MSub(Get(cf.operating).value,
                             MAbs(Get(cf.capex).value))
                 /\ Get(cf.free_cash_flow).confidence = 95
            ELSE ~Has(cf.free_cash_flow)

\* a negative free cash flow has been committed
C10_Witness ==
  /\ pc[1] = "cleanup"
  /\ Has(financials[1].cash_flow.free_cash_flow)
  /\ MLt(Get(financials[1].cash_flow.free_cash_flow).value, MZero)

\* C11: deriveMissingFields sets equity.total to assets.total less
\* liabilities.total, with confidence 90 and the source "Derived (Assets -
\* Liabilities)", exactly when no equity.total was extracted, assets.total
\* and liabilities.total are both present and the difference is positive;
\* in every other case equity.total is as it was, so that an extracted
\* equity.total is never overwritten.
C11_DerivedEquity ==
  call.fn = "deriveMissingFields" =>
    LET b == call.before
        f == call.financials
    IN  IF /\ ~Has(b.equity.total)
           /\ Has(b.assets.total) /\ Has(b.liabilities.total)
           /\ MLt(Get(b.liabilities.total).value, Get(b.assets.total).value)
          THEN /\ Has(f.equity.total)
               /\ Get(f.equity.total).value
                    = MSub(Get(b.assets.total).value,
                           Get(b.liabilities.total).value)
               /\ Get(f.equity.total).confidence = 90
               /\ Get(f.equity.total).source.text
                    = "Derived (Assets - Liabilities)"
          ELSE f.equity.total = b.equity.total

\* assets of 100e9 and liabilities of 40e9 have given an equity of 60e9
C11_Witness ==
  /\ call.fn = "deriveMissingFields"
  /\ ~Has(call.before.equity.total)
  /\ Has(call.before.assets.total) /\ Has(call.before.liabilities.total)
  /\ Get(call.before.assets.total).value = Dollars(100000, 0)
  /\ Get(call.before.liabilities.total).value = Dollars(40000, 0)
  /\ call.financials.equity.total # None
  /\ Get(call.financials.equity.total).value = Dollars(60000, 0)

\* k * x, for a natural k
MTimes(x, k) == MNorm(x.hi * k, x.lo * k)

\* assets.total and liabilities.total are both present in f and differ by
\* less than 1% of assets.total
NearlyEqual(f) ==
  /\ Has(f.assets.total) /\ Has(f.liabilities.total)
  /\ MLt(MTimes(MAbs(MSub(Get(f.assets.total).value,
                          Get(f.liabilities.total).value)), 100),
         Get(f.assets.total).value)

RejectingLiabilities ==
  "WARNING: Total Assets = Total Liabilities - rejecting liabilities"

\* C12: when assets.total and liabilities.total are both present and differ
\* by less than 1% of assets.total, the filter unsets liabilities.total and
\* keeps assets.total, and parse goes on: validation and scoring leave the
\* financials as the filter left them and parse returns a ParseResult that
\* holds them.
C12_NearlyEqualLiabilitiesUnset ==
  [][\A i \in Instances :
       /\ (pc[i] = "cleanup" /\ pc'[i] # "cleanup"
             /\ NearlyEqual(financials[i])) =>
            /\ financials'[i].liabilities.total = None
            /\ financials'[i].assets.total = financials[i].assets.total
            /\ pc'[i] = "validate"
       /\ (pc[i] = "validate" /\ pc'[i] # "validate") =>
            /\ financials'[i] = financials[i]
            /\ pc'[i] = "confidence"
       /\ (pc[i] = "confidence" /\ pc'[i] # "confidence") =>
            /\ financials'[i] = financials[i]
            /\ pc'[i] = "return"
       /\ (pc[i] = "return" /\ pc'[i] # "return") =>
            /\ Len(returned'[i]) = Len(returned[i]) + 1
            /\ returned'[i][Len(returned'[i])].financials = financials[i]
    ]_vars

\* parse has returned a result for the document with total assets of
\* 900,000,000,000 and total liabilities of 899,500,000,000: the filter has
\* logged the rejection, liabilities.total is unset and assets.total is kept
C12_Witness ==
  /\ Len(returned[1]) > 0
  /\ LET r == returned[1][1]
     IN  /\ \E k \in DOMAIN r.extraction_log :
               r.extraction_log[k].msg = RejectingLiabilities
         /\ r.financials.liabilities.total = None
         /\ Has(r.financials.assets.total)
         /\ Get(r.financials.assets.total).value = Dollars(900000, 0)

\* the methods applied after the filter: the financials they leave are the
\* financials of the ParseResult
Filtered == {"cleanupImpossibleValues", "validateFinancials",
             "calculateConfidence"}

\* slot and limit are both present and slot's value times den exceeds
\* limit's value times num
Exceeds(slot, limit, num, den) ==
  /\ Has(slot) /\ Has(limit)
  /\ MLt(MTimes(Get(limit).value, num), MTimes(Get(slot).value, den))

\* the hard sanity bounds between the present slots of f
WithinHardBounds(f) ==
  /\ ~Exceeds(f.assets.cash, f.assets.total, 1, 1)
  /\ ~Exceeds(f.assets.marketable_securities, f.assets.total, 1, 1)
  /\ ~Exceeds(f.income.operating_income, f.revenues.total, 6, 5)
  /\ ~Exceeds(f.income.net_income, f.revenues.total, 6, 5)
  /\ ~Exceeds(f.expenses.research_development, f.revenues.total, 1, 1)
  /\ ~NearlyEqual(f)

\* C13: the financials the filter leaves, which validation and scoring pass
\* on to the ParseResult, keep the hard sanity bounds between present
\* slots: cash and marketable securities at most total assets, operating
\* income and net income at most 1.2 times total revenue, research and
\* development at most total revenue, and total liabilities not within 1%
\* of total assets.
C13_HardBoundsHold ==
  call.fn \in Filtered => WithinHardBounds(call.financials)

\* the filter was given a cash above total assets and marketable securities
\* below them: it has left the securities and no cash
C13_Witness ==
  /\ call.fn = "cleanupImpossibleValues"
  /\ Exceeds(call.before.assets.cash, call.before.assets.total, 1, 1)
  /\ Has(call.before.assets.marketable_securities)
  /\ call.financials.assets.cash = None
  /\ call.financials.assets.marketable_securities
       = call.before.assets.marketable_securities

\* the slots the filter may unset, each with the entry it logs for it
Removable ==
  << [slot |-> <<"liabilities", "total">>, msg |-> RejectingLiabilities],
     [slot |-> <<"assets", "cash">>,
      msg |-> "WARNING: Cash > Total Assets - rejecting cash value"],
     [slot |-> <<"assets", "marketable_securities">>,
      msg |-> "WARNING: Marketable Securities > Total Assets - rejecting"],
     [slot |-> <<"income", "operating_income">>,
      msg |-> "WARNING: Operating Income > Revenue - rejecting operating income"],
     [slot |-> <<"income", "net_income">>,
      msg |-> "WARNING: Net Income > Revenue - rejecting net income"],
     [slot |-> <<"expenses", "research_development">>,
      msg |-> "WARNING: R&D > Revenue - rejecting R&D"] >>

\* the slots present in b and unset in f
Removed(b, f) ==
  {cs \in UNION {{<<c, sl>> : sl \in Slots[c]} : c \in Categories} :
     Has(b[cs[1]][cs[2]]) /\ ~Has(f[cs[1]][cs[2]])}

\* C14: the filter only removes whole slots.  Every slot is after the
\* filter as it was before (value, confidence and source) or it was present
\* and is unset; the unset slots are among liabilities.total, assets.cash,
\* assets.marketable_securities, income.operating_income, income.net_income
\* and expenses.research_development; and the filter logs, after the line
\* that announces it, exactly one entry for each slot it has unset, in the
\* order of its rules.
C14_FilterOnlyRemoves ==
  call.fn = "cleanupImpossibleValues" =>
    LET b == call.before
        f == call.financials
    IN  /\ \A c \in Categories :
             \A sl \in Slots[c] :
               \/ f[c][sl] = b[c][sl]
               \/ /\ <<c, sl>> \in Removed(b, f)
                  /\ \E k \in DOMAIN Removable : Removable[k].slot = <<c, sl>>
        /\ Len(call.log) = 1 + Cardinality(Removed(b, f))
        /\ call.log[1].msg = "Cleaning up impossible values"
        /\ [k \in 1 .. Len(call.log) - 1 |-> call.log[k + 1].msg]
             = [k \in 1 .. Cardinality(Removed(b, f)) |->
                  SelectSeq(Removable,
                            LAMBDA r : r.slot \in Removed(b, f))[k].msg]

\* the filter has unset cash and marketable securities, both above total
\* assets, has logged two entries for them, and has kept total liabilities
C14_Witness ==
  /\ call.fn = "cleanupImpossibleValues"
  /\ Removed(call.before, call.financials)
       = {<<"assets", "cash">>, <<"assets", "marketable_securities">>}
  /\ Len(call.log) = 3
  /\ Has(call.financials.liabilities.total)
  /\ call.financials.liabilities.total = call.before.liabilities.total

\* C15: validation is advisory.  The financials are after validateFinancials
\* as they were before it, whatever it warns about, and calculateConfidence
\* is applied next to the same financials and to exactly the warnings
\* validateFinancials has returned; these financials, warnings and score
\* are what parse returns.
C15_ValidationAdvisory ==
  /\ call.fn = "validateFinancials" =>
       /\ call.financials = call.before
       /\ call.warnings
            = validateFinancials(call.before, metadata[1]).warnings
  /\ call.fn = "calculateConfidence" =>
       /\ call.financials = call.before
       /\ call.warnings
            = validateFinancials(call.financials, metadata[1]).warnings
       /\ call.confidence
            = calculateConfidence(call.financials, call.warnings).confidence

\* financials with a negative gross profit, an operating income above it
\* and three more faults have drawn five warnings and have been scored as
\* they were
C15_Witness ==
  /\ call.fn = "calculateConfidence"
  /\ Len(call.warnings) = 5
  /\ Has(call.financials.revenues.gross_profit)
  /\ MLt(Get(call.financials.revenues.gross_profit).value, MZero)
  /\ Has(call.financials.income.operating_income)

\* the weight of each field the score counts
FieldWeights ==
  << [slot |-> <<"revenues", "total">>, weight |-> 3],
     [slot |-> <<"income", "net_income">>, weight |-> 3],
     [slot |-> <<"assets", "total">>, weight |-> 3],
     [slot |-> <<"liabilities", "total">>, weight |-> 3],
     [slot |-> <<"equity", "total">>, weight |-> 3],
     [slot |-> <<"income", "operating_income">>, weight |-> 2],
     [slot |-> <<"revenues", "gross_profit">>, weight |-> 2],
     [slot |-> <<"assets", "cash">>, weight |-> 2],
     [slot |-> <<"cash_flow", "operating">>, weight |-> 2],
     [slot |-> <<"expenses", "research_development">>, weight |-> 1],
     [slot |-> <<"expenses", "sales_marketing">>, weight |-> 1],
     [slot |-> <<"cash_flow", "capex">>, weight |-> 1],
     [slot |-> <<"assets", "marketable_securities">>, weight |-> 1] >>

\* the sum of the weights of the first n fields of FieldWeights present in f
RECURSIVE Achieved(_, _)
Achieved(f, n) ==
  IF n = 0
    THEN 0
    ELSE Achieved(f, n - 1)
           + (IF Has(f[FieldWeights[n].slot[1]][FieldWeights[n].slot[2]])
                THEN FieldWeights[n].weight
                ELSE 0)

\* r is a / 27 * 100 rounded to the nearest integer
IsRoundedPercent(r, a) ==
  /\ 2 * (100 * a - 27 * r) <= 27
  /\ 2 * (27 * r - 100 * a) <= 27

\* C16: the confidence calculateConfidence returns is
\* round(100 * achieved / 27) - min(20, 5 * number of warnings), clamped to
\* 0 .. 100, achieved being the sum of the weights (3 critical, 2 important,
\* 1 optional) of the fields that are present; it is 100 when all 13 fields
\* are present and nothing is warned about, 0 when all are absent, and
\* always an integer of 0 .. 100.
C16_ConfidenceFormula ==
  call.fn = "calculateConfidence" =>
    LET achieved == Achieved(call.financials, Len(FieldWeights))
        n == Len(call.warnings)
        penalty == IF 5 * n < 20 THEN 5 * n ELSE 20
    IN  /\ call.confidence \in 0 .. 100
        /\ \E r \in 0 .. 100 :
             /\ IsRoundedPercent(r, achieved)
             /\ call.confidence = IF r - penalty < 0 THEN 0 ELSE r - penalty
        /\ (achieved = 27 /\ n = 0) => call.confidence = 100
        /\ achieved = 0 => call.confidence = 0

\* all 13 fields are present, nothing is warned about and the score is 100
C16_Witness ==
  /\ call.fn = "calculateConfidence"
  /\ Achieved(call.financials, Len(FieldWeights)) = 27
  /\ call.warnings = <<>>
  /\ call.confidence = 100

\* the multipliers of the document scales
ScaleMultipliers == {ScalePatterns[k].multiplier : k \in DOMAIN ScalePatterns}

\* milli thousandths times multiplier, in dollars
MilliTimes(milli, multiplier) ==
  IF multiplier = 1000000000
    THEN Dollars(milli, 0)
    ELSE MNorm(0, milli * (multiplier \div 1000))

\* the numeral of the token t, in thousandths
Milli(t) == 1000 * t.int + t.frac

HasSuffix(t) == t.kind = "num" /\ t.suffix # ""

\* C17: for a numeral with a suffix B, M or K of either case parseNumber
\* returns the same value under every document scale: the numeral times
\* 10^9, 10^6 or 10^3 as the suffix says, whatever the scale of the
\* document.
C17_SuffixOverridesScale ==
  (call.fn = "parseNumber" /\ HasSuffix(call.text)) =>
    /\ \A m \in ScaleMultipliers : parseNumber(call.text, m) = call.value
    /\ Milli(call.text) # 0 =>
         /\ Has(call.value)
         /\ MAbs(Get(call.value))
              = MilliTimes(Milli(call.text),
                           CASE call.text.suffix \in {"B", "b"} -> 1000000000
                             [] call.text.suffix \in {"M", "m"} -> 1000000
                             [] call.text.suffix \in {"K", "k"} -> 1000)

\* "$2.5B" has given 2,500,000,000 in a document in thousands
C17_Witness ==
  /\ call.fn = "parseNumber"
  /\ call.text = [Dollar(Num(2)) EXCEPT !.frac = 500, !.suffix = "B"]
  /\ call.multiplier = 1000
  /\ call.value = Some(Dollars(2500, 0))

\* C18: for a numeral without a suffix parseNumber returns the numeral,
\* "$" and "," left aside, times the multiplier of the document scale,
\* negated exactly when the token has both parentheses; it returns no value
\* when the numeral is zero or the text is no number.
C18_UnsuffixedUsesScale ==
  (call.fn = "parseNumber" /\ ~HasSuffix(call.text)) =>
    IF call.text.kind # "num" \/ Milli(call.text) = 0
      THEN call.value = None
      ELSE /\ Has(call.value)
           /\ MAbs(Get(call.value))
                = MilliTimes(Milli(call.text), call.multiplier)
           /\ MLt(Get(call.value), MZero)
                <=> (call.text.open /\ call.text.close)

\* "(1,234)" has given -1,234,000,000 in a document in millions
C18_Witness ==
  /\ call.fn = "parseNumber"
  /\ call.text = Paren(Num(1234))
  /\ call.multiplier = 1000000
  /\ call.value = Some(Dollars(-1234, 0))

\* the field capex of extractFinancials; each numeral that follows its label
\* in the documents of the model stands in parentheses
CapexSpec ==
  CHOOSE s \in {FieldSpecs[k] : k \in DOMAIN FieldSpecs} :
    s.fieldName = "capex"

AllNegative(candidates) ==
  \A k \in DOMAIN candidates : MLt(candidates[k].value, MZero)

\* the candidates the table-based strategy finds for capex in the tables of
\* parser i
CapexFromTables(i) ==
  extractFromTables(CapexSpec.patterns, tables[i], documentScale[i].multiplier)

\* the candidates the text-based strategy finds for capex in the raw text
\* of parser i
CapexFromText(i) ==
  extractFromText(CapexSpec.patterns, CapexSpec.minValue, CapexSpec.maxValue,
                  rawText[i].lines, documentScale[i].multiplier)

\* C19: sign and magnitude are decided in the same way by both strategies:
\* a numeral in parentheses that belongs to a matched label gives a
\* negative candidate, read from a table cell or from a line of the raw
\* text.
C19_ParenthesisedIsNegative ==
  \A i \in Instances :
    pc[i] = "cleanup" =>
      AllNegative(CapexFromTables(i)) /\ AllNegative(CapexFromText(i))

\* the maximal runs <<a, b>> of consecutive numeric-dense lines of list,
\* whose lines are numbered 1, 2, ... without a gap
DenseRuns(list) ==
  {r \in DenseLines(list) \X DenseLines(list) :
     /\ r[1] <= r[2]
     /\ \A m \in r[1] .. r[2] : m \in DenseLines(list)
     /\ r[1] - 1 \notin DenseLines(list)
     /\ r[2] + 1 \notin DenseLines(list)}

\* the runs that are to become a table
TableRuns(list) ==
  {r \in DenseRuns(list) : r[2] - r[1] + 1 >= MinTableRows}

\* the rows of table are the lines r[1] .. r[2] of list, in order
RowsAreRun(table, list, r) ==
  /\ Len(table.rows) = r[2] - r[1] + 1
  /\ \A j \in 1 .. Len(table.rows) :
       Texts(table.rows[j])
         = Texts(SelectSeq(list, LAMBDA w : w.line = r[1] + j - 1))

\* C20: after the first detectTables of a parser the tables are, one for
\* one, the maximal runs of at least MinTableRows consecutive numeric-dense
\* lines of the page, each table holding the lines of its run in order,
\* wherever the run lies, the end of the page included; shorter runs give
\* no table.
C20_EveryRunIsATable ==
  \A i \in Instances :
    (pc[i] = "metadata" /\ parses[i] = 0) =>
      /\ Len(tables[i]) = Cardinality(TableRuns(words[i]))
      /\ \A r \in TableRuns(words[i]) :
           \E k \in DOMAIN tables[i] : RowsAreRun(tables[i][k], words[i], r)

\* the distance of the positions x and y
Distance(x, y) == IF x < y THEN y - x ELSE x - y

\* cols are the anchors built greedily from the ascending positions xs: the
\* first position, and each position more than Tolerance right of the
\* anchor before it
GreedyAnchors(cols, xs) ==
  /\ \A j \in DOMAIN cols : \E k \in DOMAIN xs : xs[k] = cols[j]
  /\ xs # <<>> => (cols # <<>> /\ cols[1] = xs[1])
  /\ \A j \in DOMAIN cols : j > 1 => cols[j] - cols[j - 1] > Tolerance
  /\ \A k \in DOMAIN xs :
       \E j \in DOMAIN cols :
         /\ cols[j] <= xs[k] /\ xs[k] - cols[j] <= Tolerance
         /\ \A m \in DOMAIN cols : cols[m] <= xs[k] => m <= j

\* C21: the column anchors are built greedily from the sorted x positions,
\* and a word is assigned to the column whose anchor is nearest to its x
\* position if that anchor is less than AssignTolerance away, otherwise to
\* a new trailing column.
C21_NearestColumn ==
  call.fn = "assignColumn" =>
    /\ GreedyAnchors(call.columns, call.xPositions)
    /\ IF \E j \in DOMAIN call.columns :
            Distance(call.x, call.columns[j]) < AssignTolerance
         THEN /\ call.col + 1 \in DOMAIN call.columns
              /\ \A j \in DOMAIN call.columns :
                   Distance(call.x, call.columns[call.col + 1])
                     <= Distance(call.x, call.columns[j])
         ELSE call.col = Len(call.columns)

\* the values of the candidates a and b differ by more than 50% of the
\* larger value
DifferWidely(a, b) ==
  LET larger == IF MLt(a.value, b.value) THEN b.value ELSE a.value
  IN  MLt(larger, MTimes(MAbs(MSub(a.value, b.value)), 2))

\* the candidate a stands before b as the ordering of a critical field
\* has it
CriticalOrder(a, b) ==
  IF DifferWidely(a, b)
    THEN MLt(b.value, a.value)
    ELSE a.confidence >= b.confidence

\* C22: for a critical field with several pooled candidates the accepted
\* candidate is the first of the ordering in which two candidates whose
\* values differ by more than 50% of the larger stand by value descending
\* and two that differ by less by confidence descending: it stands before
\* every other candidate of the pool.
C22_CriticalOrdering ==
  ( /\ call.fn = "rankCandidates"
    /\ call.fieldName \in CriticalFieldNames
    /\ Len(call.candidates) > 1 ) =>
      /\ Has(call.result)
      /\ \E k \in DOMAIN call.candidates :
           /\ call.candidates[k] = Get(call.result)
           /\ \A j \in DOMAIN call.candidates :
                j # k => CriticalOrder(Get(call.result), call.candidates[j])

\* C23: for a field that is not critical the accepted candidate has the
\* greatest confidence of the pool and is, of the candidates with that
\* confidence, the earliest in the pool, in which the table candidates stand
\* before the text candidates.
C23_BestByConfidence ==
  ( /\ call.fn = "rankCandidates"
    /\ call.fieldName \notin CriticalFieldNames ) =>
      /\ call.candidates = call.tableResults \o call.textResults
      /\ IF call.candidates = <<>>
           THEN call.result = None
           ELSE \E k \in DOMAIN call.candidates :
                  /\ call.result = Some(call.candidates[k])
                  /\ \A j \in DOMAIN call.candidates :
                       /\ call.candidates[j].confidence
                            <= call.candidates[k].confidence
                       /\ j < k => call.candidates[j].confidence
                                     < call.candidates[k].confidence

\* a table candidate and a text candidate, both of confidence 95, and a
\* candidate of a larger value: the table candidate is accepted
C23_Witness ==
  /\ call.fn = "rankCandidates"
  /\ call.fieldName = "capex"
  /\ Len(call.tableResults) = 2 /\ Len(call.textResults) = 2
  /\ call.tableResults[2].confidence = 95
  /\ call.textResults[1].confidence = 95
  /\ call.result = Some(call.tableResults[2])

\* consolidatedText of the raw text of parser 1
Section == ConsolidatedText(rawText[1].lines)

\* the candidates a search of the consolidated section yields for total
\* assets
FromSection ==
  SearchCandidates(TotalAssets.patterns, Section.lines, TRUE,
                   TotalAssets.minValue, TotalAssets.maxValue,
                   documentScale[1].multiplier)

\* the candidates a search of the full document yields
FromDocument ==
  SearchCandidates(TotalAssets.patterns, rawText[1].lines, FALSE,
                   TotalAssets.minValue, TotalAssets.maxValue,
                   documentScale[1].multiplier)

SameLineOf(results) ==
  SelectSeq(results,
            LAMBDA r : r.source.text = "Consolidated statement (same line)")

FromFullText(r) ==
  r.source.text \in {"Text extraction (same line)",
                     "Text extraction (next line)"}

\* the preference of the text-based strategy, a consolidated capture being
\* sparse when it is shorter than sparseBelow characters
TextPreference(sparseBelow) ==
  call.fn = "extractFromText" =>
    /\ (Section.len >= sparseBelow /\ SameLineOf(FromSection) # <<>>) =>
         call.results = SameLineOf(FromSection)
    /\ (\E k \in DOMAIN call.results : FromFullText(call.results[k])) =>
         (FromSection = <<>> \/ Section.len < sparseBelow)
    /\ (FromSection = <<>> \/ Section.len < sparseBelow) =>
         call.results = FromDocument

C25_AbsentMetadataIsEmpty ==
  \A i \in Instances :
    pc[i] \in {"financials", "cleanup", "validate", "confidence", "return"} =>
      LET head == rawText[i].head
          m == metadata[i]
      IN  /\ head.company = "" => m.company_name = ""
          /\ head.ticker = "" => m.ticker = ""
          /\ head.cik = "" => m.cik = ""
          /\ head.periodEnd.text = "" => m.period_end = ""
          /\ head.filingDate = "" => m.filing_date = ""
          /\ head.formType = "" => m.document_type = ""
          /\ (head.fiscalYear = "" /\ head.periodEnd.year = "") =>
               m.fiscal_year = ""
          /\ head.quarter = "" => m.fiscal_quarter = ""


\* the first position at or after from of a line of log whose message is
\* one of msgs; 0 when there is none
RECURSIVE FirstLine(_, _, _)
FirstLine(lines, msgs, from) ==
  IF from > Len(lines) THEN 0
  ELSE IF lines[from].msg \in msgs THEN from
  ELSE FirstLine(lines, msgs, from + 1)

\* the lines of marks are found in lines one after the other
RECURSIVE InOrder(_, _, _)
InOrder(lines, marks, from) ==
  IF marks = <<>> THEN TRUE
  ELSE LET at == FirstLine(lines, Head(marks), from)
       IN  at # 0 /\ InOrder(lines, Tail(marks), at + 1)

\* what the stages after the table stage write first, in the order of parse
LaterStages ==
  << {"Extracted company name", "Could not extract company name"},
     {"Extracting financial fields with multi-strategy approach"},
     {"Deriving missing fields from financial relationships"},
     {"Cleaning up impossible values"},
     {"WARNING: Found validation warnings",
      "SUCCESS: All validation checks passed"},
     {"Final confidence score"} >>

TableStageLines == {"Detecting tables from position data", "Detected tables"}

FromTable(slot) == Has(slot) /\ Get(slot).source.text = "Table"

\* C26: a parser built without positioned words skips the table stage: its
\* result has no detected table, its log no line of the table stage, none
\* of its slots holds a candidate read from a table, and the stages after
\* the table stage have all run in their order.
C26_NoWordsNoTableStage ==
  \A i \in Instances :
    words[i] = <<>> =>
      \A k \in DOMAIN returned[i] :
        LET r == Result(i, k)
        IN  /\ r.tables_detected = <<>>
            /\ \A n \in DOMAIN r.extraction_log :
                 r.extraction_log[n].msg \notin TableStageLines
            /\ \A c \in Categories : \A sl \in Slots[c] :
                 ~FromTable(r.financials[c][sl])
            /\ InOrder(r.extraction_log, LaterStages, 1)

\* a parser without words has returned a result with an extracted total of
\* the assets and a derived equity
C26_Witness ==
  /\ words[1] = <<>>
  /\ returned[1] # <<>>
  /\ Has(returned[1][1].financials.assets.total)
  /\ Has(returned[1][1].financials.equity.total)
  /\ Get(returned[1][1].financials.equity.total).confidence = 90


\* C27: parse of an empty raw text without positioned words returns a
\* result in which every financial slot is absent, no table is detected,
\* there is no validation warning and the extraction confidence is 0.
C27_EmptyDocument ==
  \A i \in Instances :
    (rawText[i] = EmptyText /\ words[i] = <<>>) =>
      \A k \in DOMAIN returned[i] :
        LET r == Result(i, k)
        IN  /\ \A c \in Categories : \A sl \in Slots[c] :
                 ~Has(r.financials[c][sl])
            /\ r.tables_detected = <<>>
            /\ r.validation_warnings = <<>>
            /\ r.extraction_confidence = 0

\* parse of the empty document has returned, every stage having logged
C27_Witness ==
  /\ rawText[1] = EmptyText
  /\ words[1] = <<>>
  /\ returned[1] # <<>>
  /\ InOrder(returned[1][1].extraction_log, LaterStages, 1)


\* the share counts of the documented chain, in its order; 0 where a source
\* is not available
ShareSources(fmp) ==
  LET profile == Get(fmp.profile)
      metrics == IF Has(fmp.metrics) THEN Get(fmp.metrics)
                 ELSE [sharesOutstanding |-> 0]
      income == IF Has(fmp.income) THEN Get(fmp.income)
                ELSE [weightedAverageShsOut |-> 0,
                      weightedAverageShsOutDil |-> 0]
  IN  << profile.sharesOutstanding, metrics.sharesOutstanding,
         income.weightedAverageShsOut, income.weightedAverageShsOutDil,
         IF profile.mktCap # 0 /\ profile.price # 0
           THEN profile.mktCap \div profile.price ELSE 0 >>

Available(n) == n # 0

\* C28: for a symbol whose profile and statements were fetched, the share
\* count of the response is the first available source of the chain
\* profile.sharesOutstanding, metrics.sharesOutstanding,
\* income.weightedAverageShsOut, income.weightedAverageShsOutDil,
\* mktCap / price; when no source is available the response is an error, not
\* a share count of 0.
C28_ShareFallbackChain ==
  (call.fn = "GET" /\ call.fmp.key /\ call.fmp.profileOk
     /\ Has(call.fmp.profile) /\ ~call.fmp.incomeThrows) =>
    LET sources == SelectSeq(ShareSources(call.fmp), Available)
        response == Get(call.response)
    IN  IF sources = <<>>
          THEN response.status # 200
          ELSE response.status = 200 /\ response.shares = sources[1]


Warned(warnings, msgs) == \E n \in DOMAIN warnings : warnings[n].msg \in msgs

C30_AtMostOneResponse ==
  call.fn = "handler" => Len(call.sent) <= 1

\* the timer has answered 504 and handler has since run to its end
C30_Witness ==
  /\ call.fn = "handler"
  /\ call.method = "POST"
  /\ call.at = "done"
  /\ call.requestTimeout = "fired"
  /\ call.sent = << [status |-> 504, error |-> "Request timeout"] >>
  /\ call.error = ""
  /\ ~call.skipRec

=============================================================================
